---- MODULE Spec2Model ----
(***************************************************************************)
(* Verification model of the owletto connectors: the incremental,          *)
(* paginated collection loops of the Reddit, Hacker News, iOS App Store,   *)
(* Google Play and X connectors, their checkpoints and their enrichment    *)
(* passes.                                                                 *)
(*                                                                         *)
(* One behaviour follows ONE connector (chosen in Init) through a chain of *)
(* runs: each run is started with the checkpoint the previous run          *)
(* returned, against the same external source.                             *)
(***************************************************************************)
EXTENDS Integers, Sequences, FiniteSets, TLC

VARIABLES
    connector,      \* which connector this behaviour runs
    source,         \* the external site: what each request returns
    config,         \* ctx.config of the runs
    checkpoint,     \* ctx.checkpoint of the current run (Null on the first)
    pc,             \* position of the current run
    loc,            \* the local variables of the running sync
    events,         \* the events array of the running sync
    fetches,        \* page fetches performed by the current run
    consumed,       \* raw items the current run has iterated over
    raw,            \* the reviews the current run's page fetches returned
    exhausted,      \* the last page fetched had no next cursor, or no item
    calls,          \* expensive (enrichment) fetches of the current run, in order
    result,         \* the checkpoint of the SyncResult, once returned
    emittedBefore,  \* external ids emitted by the earlier runs of the chain
    enrichedBefore  \* ids whose expensive fetch succeeded in an earlier run

vars == <<connector, source, config, checkpoint, pc, loc, events, fetches,
          consumed, raw, exhausted, calls, result, emittedBefore, enrichedBefore>>

\* an absent object (no checkpoint, no result); an absent time or token is 0
Null == [null |-> TRUE]

(***************************************************************************)
(* Bounds of the model.                                                    *)
(***************************************************************************)
\* pages of a finite source
MaxSrcPages == 2
\* raw items of a finite source, all its pages together
MaxItems == 3
\* reviews in a finite review feed
MaxFeed == 5
\* reviews on one page of a review feed (50 and 150 on the sites)
PageSize == 2
\* distinct instants of time
MaxTs == 3
\* X: results of one primary search, largest thread budget
MaxSearch == 3
MaxBudget == 2
\* Google Play: reviews after which a run fetches no further page (500 in the
\* source, scaled with the page size)
MAX_REVIEWS == 3

(***************************************************************************)
(* Helpers.                                                                *)
(***************************************************************************)
SeqsUpTo(S, n) == UNION {[1..k -> S] : k \in 0..n}

Range(s) == {s[i] : i \in 1..Len(s)}

Ids(evs) == {evs[i].external_id : i \in 1..Len(evs)}

RECURSIVE SumLen(_)
SumLen(ps) == IF ps = <<>> THEN 0 ELSE Len(Head(ps)) + SumLen(Tail(ps))

RECURSIVE SumTo(_, _)
SumTo(l, i) == IF i = 0 THEN 0 ELSE l[i] + SumTo(l, i - 1)

\* the ways to lay at most MaxItems items of S out on k pages
Paged(S, k) ==
    UNION {{[i \in 1..k |-> SubSeq(flat, SumTo(l, i - 1) + 1, SumTo(l, i))] :
                flat \in [1..SumTo(l, k) -> S]} :
             l \in {m \in [1..k -> 0..MaxItems] : SumTo(m, k) <= MaxItems}}

\* a page of at most one item of S
ShortPages(S) == {<<>>} \cup {<<x>> : x \in S}

(***************************************************************************)
(* Reddit connector, sync.                                                 *)
(*                                                                         *)
(* A source is a sequence of listings; the cursor `after` is the index of  *)
(* the listing it requests (0: no cursor).  A raw child is "ok", "old"     *)
(* (created before cutoffDate) or "filtered" (author [deleted], a          *)
(* crosspost, a removed body).  Its name is its place in the source.       *)
(***************************************************************************)
RedditKinds == {"ok", "old", "filtered"}

RedditMAX_PAGES == 10

\* k listings chained by their cursors, the last one without a cursor
RedditChain(k) ==
    {[i \in 1..k |-> [children |-> cs[i], after |-> IF i < k THEN i + 1 ELSE 0]] :
        cs \in Paged(RedditKinds, k)}

\* a source that never runs out: its listing's cursor leads to a further listing
RedditEndless == {<<[children |-> c, after |-> 1]>> : c \in ShortPages(RedditKinds)}

RedditSources == (UNION {RedditChain(k) : k \in 1..MaxSrcPages}) \cup RedditEndless

\* the listing fetched for cursor `after` (null requests the first)
RedditListing(src, after) == src[IF after = 0 THEN 1 ELSE after]

RedditName(after, i) == <<"t3", IF after = 0 THEN 1 ELSE after, i>>

\* transformPost / transformComment: the event of child i of the listing
RedditTransform(after, i) == [external_id |-> <<"reddit", RedditName(after, i)>>]

\* faulty variant: the loop over the children ends after the first child
RedditScan_FirstOnly(children, after, i, acc) ==
    IF Len(children) = 0 \/ children[1] # "ok"
    THEN [events |-> acc, reachedCutoff |-> FALSE, seen |-> 0]
    ELSE [events |-> Append(acc, RedditTransform(after, 1)), reachedCutoff |-> FALSE,
          seen |-> 1]

\* the for-loop over children: (events appended, reachedCutoff, children iterated)
RECURSIVE RedditScan(_, _, _, _)
RedditScan(children, after, i, acc) ==
    IF i > Len(children) THEN [events |-> acc, reachedCutoff |-> FALSE, seen |-> Len(children)]
    ELSE IF children[i] = "old" THEN [events |-> acc, reachedCutoff |-> TRUE, seen |-> i]
    ELSE IF children[i] = "filtered" THEN RedditScan(children, after, i + 1, acc)
    ELSE RedditScan(children, after, i + 1, Append(acc, RedditTransform(after, i)))

\* buildFetchUrl, posts mode: the order the site is asked for
RedditSortOf(cfg) == IF cfg.search_terms THEN "relevance" ELSE "new"

RedditLoopGuard == loc.page < RedditMAX_PAGES /\ ~loc.reachedCutoff

\* delays counts the inter-page sleeps of the run that have completed
\* status is the HTTP status of the last response of the run, 0 before the first
RedditInitLoc ==
    [after |-> 0, page |-> 0, reachedCutoff |-> FALSE, delays |-> 0, status |-> 0]

\* the statuses of a response that is not OK: the three the code names and another
RedditNotOk == {429, 404, 403, 500}

\* faulty variant: a rate-limited request is tried again
RedditOnNotOk_Retry429(status) == IF status = 429 THEN "loop" ELSE "failed"

\* if (!response.ok): every branch throws
RedditOnNotOk(status) ==
    CASE status = 429 -> "failed"
      [] status = 404 -> "failed"
      [] status = 403 -> "failed"
      [] OTHER -> "failed"

\* faulty variant: the loop never sleeps
RedditSleeps_Never(page, reachedCutoff) == FALSE

\* if (page < this.MAX_PAGES && !reachedCutoff) await this.sleep(RATE_LIMIT_MS)
RedditSleeps(page, reachedCutoff) == page < RedditMAX_PAGES /\ ~reachedCutoff

\* the checkpoint sync returns: the time of the run is not modelled, the token is
RedditCheckpoint(after) == [pagination_token |-> after]

\* one iteration of the while loop whose response is OK
RedditFetchPage ==
    /\ connector = "reddit" /\ pc = "loop"
    /\ RedditLoopGuard
    /\ LET listing == RedditListing(source, loc.after)
           scan == RedditScan(listing.children, loc.after, 1, events)
       IN /\ fetches' = fetches + 1
          /\ IF Len(listing.children) = 0
             THEN /\ pc' = "build"
                  /\ loc' = [loc EXCEPT !.status = 200]
                  /\ UNCHANGED <<events, consumed>>
             ELSE /\ events' = scan.events
                  /\ consumed' = consumed + scan.seen
                  /\ IF listing.after = 0
                     THEN /\ loc' = [loc EXCEPT !.after = 0, !.status = 200,
                                                !.reachedCutoff = scan.reachedCutoff]
                          /\ pc' = "build"
                     ELSE /\ loc' = [after |-> listing.after, page |-> loc.page + 1,
                                     reachedCutoff |-> scan.reachedCutoff,
                                     status |-> 200,
                                     delays |-> IF RedditSleeps(loc.page + 1,
                                                                scan.reachedCutoff)
                                                THEN loc.delays + 1 ELSE loc.delays]
                          /\ pc' = "loop"
    /\ exhausted' = (Len(RedditListing(source, loc.after).children) = 0
                     \/ RedditListing(source, loc.after).after = 0)
    /\ UNCHANGED <<connector, source, config, checkpoint, calls, result, raw,
                   emittedBefore, enrichedBefore>>

\* the response is not OK: sync throws
RedditFetchFails ==
    /\ connector = "reddit" /\ pc = "loop"
    /\ RedditLoopGuard
    /\ fetches' = fetches + 1
    /\ \E status \in RedditNotOk :
          /\ loc' = [loc EXCEPT !.status = status]
          /\ pc' = RedditOnNotOk(status)
    /\ UNCHANGED <<connector, source, config, checkpoint, events, consumed,
                   calls, result, raw, exhausted,
                   emittedBefore, enrichedBefore>>

\* the loop condition is false: fall through to the checkpoint
RedditLoopExit ==
    /\ connector = "reddit" /\ pc = "loop"
    /\ ~RedditLoopGuard
    /\ pc' = "build"
    /\ UNCHANGED <<connector, source, config, checkpoint, loc, events, fetches,
                   consumed, calls, result, raw, exhausted,
                   emittedBefore, enrichedBefore>>

RedditReturn ==
    /\ connector = "reddit" /\ pc = "build"
    /\ result' = RedditCheckpoint(loc.after)
    /\ pc' = "returned"
    /\ UNCHANGED <<connector, source, config, checkpoint, loc, events, fetches,
                   consumed, calls, raw, exhausted,
                   emittedBefore, enrichedBefore>>

RedditNext == RedditFetchPage \/ RedditFetchFails \/ RedditLoopExit \/ RedditReturn

(***************************************************************************)
(* Hacker News connector, sync.                                            *)
(*                                                                         *)
(* The Algolia index answers page p with its hits, its own page number and *)
(* nbPages.  A hit is a story without story_text that links to an external *)
(* page: its points, and whether the external page can be fetched ("ok")   *)
(* or its fetch fails or times out ("down").  objectID is the hit's place. *)
(***************************************************************************)
HNHitKinds == {[points |-> 50, url |-> "ok"],
               [points |-> 50, url |-> "down"],
               [points |-> 49, url |-> "ok"]}

HNMAX_PAGES == 50

ENGAGEMENT_THRESHOLD == 50

\* k pages of hits; or an index with more pages than a run may fetch
HNSources ==
    {[nbPages |-> k, pages |-> ps] : k \in {0}, ps \in {<<>>}}
    \cup (UNION {{[nbPages |-> k, pages |-> ps] : ps \in Paged(HNHitKinds, k)} :
                    k \in 1..MaxSrcPages})
    \cup {[nbPages |-> HNMAX_PAGES + 1, pages |-> <<h>>] : h \in ShortPages(HNHitKinds)}

\* the response to the search request for page p (0-based)
HNResponse(src, p) ==
    [page |-> p,
     nbPages |-> src.nbPages,
     hits |-> IF src.nbPages > MaxSrcPages THEN src.pages[1]
              ELSE IF p < Len(src.pages) THEN src.pages[p + 1]
              ELSE <<>>]

\* transformStory / transformComment of hit i of page p
HNTransform(contentType, hit, p, i) ==
    [external_id |-> <<IF contentType = "comment" THEN "hn_comment" ELSE "hn_story", p, i>>,
     content |-> FALSE,
     external_url |-> hit.url,
     score |-> hit.points]

HNTransformAll(contentType, hits, p) ==
    [i \in 1..Len(hits) |-> HNTransform(contentType, hits[i], p, i)]

\* faulty variant: nbPages is ignored, only an empty page ends the loop
HNHasMore_IgnoresNbPages(data) == Len(data.hits) > 0

\* hasMore, recomputed after each page
HNHasMore(data) == data.page < data.nbPages - 1 /\ Len(data.hits) > 0

HNLoopGuard == loc.hasMore /\ loc.page < HNMAX_PAGES

HNInitLoc == [page |-> 0, hasMore |-> TRUE, i |-> 1, delays |-> 0]

\* the condition under which enrichStoriesWithExternalContent fetches for an event
HNQualifies(event) ==
    /\ ~event.content
    /\ event.external_url # "none"
    /\ event.score >= ENGAGEMENT_THRESHOLD

\* fetchExternalContent: the page's text, or null; every failure is caught
HNfetchExternalContent(url) == IF url = "ok" THEN "content" ELSE "null"

HNFetchPage ==
    /\ connector = "hn" /\ pc = "loop"
    /\ HNLoopGuard
    /\ LET data == HNResponse(source, loc.page)
       IN /\ events' = events \o HNTransformAll(config.content_type, data.hits, loc.page)
          /\ consumed' = consumed + Len(data.hits)
          /\ loc' = [loc EXCEPT !.hasMore = HNHasMore(data), !.page = @ + 1,
                                !.delays = IF HNHasMore(data) THEN @ + 1 ELSE @]
    /\ fetches' = fetches + 1
    /\ exhausted' = (Len(HNResponse(source, loc.page).hits) = 0
                     \/ loc.page + 1 >= HNResponse(source, loc.page).nbPages)
    /\ UNCHANGED <<connector, source, config, checkpoint, pc, calls, result, raw,
                   emittedBefore, enrichedBefore>>

\* the response is not OK: sync throws
HNFetchFails ==
    /\ connector = "hn" /\ pc = "loop"
    /\ HNLoopGuard
    /\ fetches' = fetches + 1
    /\ pc' = "failed"
    /\ UNCHANGED <<connector, source, config, checkpoint, loc, events, consumed,
                   calls, result, raw, exhausted,
                   emittedBefore, enrichedBefore>>

\* the loop is over: enrich the stories, or return at once for comments
HNLoopExit ==
    /\ connector = "hn" /\ pc = "loop"
    /\ ~HNLoopGuard
    /\ pc' = IF config.content_type # "comment" THEN "enrich" ELSE "build"
    /\ UNCHANGED <<connector, source, config, checkpoint, loc, events, fetches,
                   consumed, calls, result, raw, exhausted,
                   emittedBefore, enrichedBefore>>

\* one iteration of the for loop of enrichStoriesWithExternalContent
HNEnrichStep ==
    /\ connector = "hn" /\ pc = "enrich"
    /\ loc.i <= Len(events)
    /\ LET event == events[loc.i]
           fetched == HNfetchExternalContent(event.external_url)
       IN IF HNQualifies(event)
          THEN /\ calls' = Append(calls, [id |-> event.external_id, ok |-> fetched = "content"])
               /\ IF fetched = "throws"
                  THEN /\ pc' = "failed"
                       /\ UNCHANGED <<events, loc>>
                  ELSE /\ events' = IF fetched # "null"
                                    THEN [events EXCEPT ![loc.i].content = TRUE]
                                    ELSE events
                       /\ loc' = [loc EXCEPT !.i = @ + 1]
                       /\ pc' = pc
          ELSE /\ loc' = [loc EXCEPT !.i = @ + 1]
               /\ UNCHANGED <<events, calls, pc>>
    /\ UNCHANGED <<connector, source, config, checkpoint, fetches, consumed,
                   result, raw, exhausted,
                   emittedBefore, enrichedBefore>>

HNEnrichDone ==
    /\ connector = "hn" /\ pc = "enrich"
    /\ loc.i > Len(events)
    /\ pc' = "build"
    /\ UNCHANGED <<connector, source, config, checkpoint, loc, events, fetches,
                   consumed, calls, result, raw, exhausted,
                   emittedBefore, enrichedBefore>>

\* the checkpoint holds the time of the sync and nothing else
HNCheckpoint == [last_sync_at |-> "now"]

HNReturn ==
    /\ connector = "hn" /\ pc = "build"
    /\ result' = HNCheckpoint
    /\ pc' = "returned"
    /\ UNCHANGED <<connector, source, config, checkpoint, loc, events, fetches,
                   consumed, calls, raw, exhausted,
                   emittedBefore, enrichedBefore>>

HNNext == HNFetchPage \/ HNFetchFails \/ HNLoopExit \/ HNEnrichStep \/ HNEnrichDone
          \/ HNReturn

(***************************************************************************)
(* Review feeds (iOS App Store RSS, Google Play).                          *)
(*                                                                         *)
(* Both sites are asked for their reviews newest first (sortby=mostrecent, *)
(* sort: NEWEST): a feed is a non-increasing sequence of timestamps, cut   *)
(* into pages of PageSize reviews; a review's id is its place in the feed. *)
(* A deep feed has more pages than any run fetches, all of one timestamp.  *)
(***************************************************************************)
IsDescending(ts) == \A i \in 1..(Len(ts) - 1) : ts[i] >= ts[i + 1]

Feeds ==
    {[feed |-> f, deep |-> FALSE] : f \in {g \in SeqsUpTo(1..MaxTs, MaxFeed) : IsDescending(g)}}
    \cup {[feed |-> <<t>>, deep |-> TRUE] : t \in 1..MaxTs}

Review(src, k) == [id |-> k, ts |-> IF src.deep THEN src.feed[1] ELSE src.feed[k]]

\* is there a k-th review
HasReview(src, k) == k >= 1 /\ (src.deep \/ k <= Len(src.feed))

\* the reviews of page p (1-based)
FeedPage(src, p) ==
    LET first == (p - 1) * PageSize + 1
        n == IF src.deep THEN PageSize
             ELSE IF Len(src.feed) >= p * PageSize THEN PageSize
             ELSE IF Len(src.feed) >= first THEN Len(src.feed) - first + 1
             ELSE 0
    IN [i \in 1..n |-> Review(src, first + i - 1)]

\* Array.prototype.sort with comparator (a, b) => b[key] - a[key]: descending
\* and stable (equal keys keep their order)
SortDescBy(evs, key) ==
    LET n == Len(evs)
        before(i) == {j \in 1..n : \/ evs[j][key] > evs[i][key]
                                   \/ evs[j][key] = evs[i][key] /\ j < i}
    IN [p \in 1..n |-> evs[CHOOSE i \in 1..n : Cardinality(before(i)) = p - 1]]

\* faulty variant: the events are returned in the order they were collected
SortDesc_KeepOrder(evs) == evs

\* events.sort((a, b) => b.published_at - a.published_at)
SortDesc(evs) == SortDescBy(evs, "published_at")

\* a review as an event
ReviewEvent(r) == [external_id |-> r.id, published_at |-> r.ts]

ReviewEvents(rs) == [i \in 1..Len(rs) |-> ReviewEvent(rs[i])]

\* last_timestamp of a checkpoint that may be absent
LastTimestamp(cp) == IF cp = Null THEN 0 ELSE cp.last_timestamp

(***************************************************************************)
(* iOS App Store connector, sync.                                          *)
(*                                                                         *)
(* source.meta: the first entry of page 1 is the app's own entry, which    *)
(* has no im:rating.                                                       *)
(***************************************************************************)
IOSMAX_PAGES == 10

IOSSources == {[feed |-> f.feed, deep |-> f.deep, meta |-> m] : f \in Feeds, m \in BOOLEAN}

\* feed.entry of page p: the entries with im:rating, and how many entries in all
IOSEntries(src, p) ==
    [reviews |-> FeedPage(src, p),
     count |-> Len(FeedPage(src, p)) + (IF src.meta /\ p = 1 THEN 1 ELSE 0)]

\* fetchFailed records that a page request of the run was not answered
IOSInitLoc ==
    [page |-> 1, shouldContinue |-> TRUE, allReviews |-> <<>>, fetchFailed |-> FALSE,
     delays |-> 0]

IOSLoopGuard == loc.shouldContinue /\ loc.page <= IOSMAX_PAGES

\* faulty variant: the review published at the checkpoint's very time is kept
IOSNewerThan_AtOrAfter(reviews, T) == SelectSeq(reviews, LAMBDA r : r.ts >= T)

\* reviews.filter(r => new Date(r.updated) > lastTimestamp)
IOSNewerThan(reviews, T) == SelectSeq(reviews, LAMBDA r : r.ts > T)

\* the oldest review of the page is at or before the checkpoint
IOSReachedCheckpoint(reviews, T) == T # 0 /\ reviews[Len(reviews)].ts <= T

IOSFetchPage ==
    /\ connector = "ios" /\ pc = "loop"
    /\ IOSLoopGuard
    /\ fetches' = fetches + 1
    /\ LET entries == IOSEntries(source, loc.page)
           reviews == entries.reviews
           T == LastTimestamp(checkpoint)
       IN IF entries.count = 0 \/ Len(reviews) = 0
          THEN /\ pc' = "build"
               /\ UNCHANGED <<loc, consumed>>
          ELSE /\ consumed' = consumed + Len(reviews)
               /\ IF IOSReachedCheckpoint(reviews, T)
                  THEN /\ loc' = [loc EXCEPT !.allReviews = @ \o IOSNewerThan(reviews, T),
                                             !.shouldContinue = FALSE]
                       /\ pc' = "build"
                  ELSE /\ loc' = [loc EXCEPT !.allReviews = @ \o reviews,
                                             !.page = @ + 1,
                                             !.delays = IF loc.page < IOSMAX_PAGES
                                                        THEN @ + 1 ELSE @]
                       /\ pc' = "loop"
    /\ raw' = raw \cup Range(IOSEntries(source, loc.page).reviews)
    /\ exhausted' = (IOSEntries(source, loc.page).count = 0)
    /\ UNCHANGED <<connector, source, config, checkpoint, events, calls, result,
                   emittedBefore, enrichedBefore>>

\* a response that is not OK, or whose body is not JSON: page 1 throws, a later
\* page ends the loop
IOSFetchFails ==
    /\ connector = "ios" /\ pc = "loop"
    /\ IOSLoopGuard
    /\ fetches' = fetches + 1
    /\ loc' = [loc EXCEPT !.fetchFailed = TRUE]
    /\ pc' = IF loc.page = 1 THEN "failed" ELSE "build"
    /\ UNCHANGED <<connector, source, config, checkpoint, events, consumed,
                   calls, result, raw, exhausted,
                   emittedBefore, enrichedBefore>>

IOSLoopExit ==
    /\ connector = "ios" /\ pc = "loop"
    /\ ~IOSLoopGuard
    /\ pc' = "build"
    /\ UNCHANGED <<connector, source, config, checkpoint, loc, events, fetches,
                   consumed, calls, result, raw, exhausted,
                   emittedBefore, enrichedBefore>>

\* the new checkpoint: the newest event's time, else the old one
IOSCheckpoint(evs, cp) ==
    IF Len(evs) > 0 THEN [last_timestamp |-> evs[1].published_at]
    ELSE [last_timestamp |-> LastTimestamp(cp)]

IOSReturn ==
    /\ connector = "ios" /\ pc = "build"
    /\ LET sorted == SortDesc(ReviewEvents(loc.allReviews))
       IN /\ events' = sorted
          /\ result' = IOSCheckpoint(sorted, checkpoint)
    /\ pc' = "returned"
    /\ UNCHANGED <<connector, source, config, checkpoint, loc, fetches,
                   consumed, calls, raw, exhausted,
                   emittedBefore, enrichedBefore>>

IOSNext == IOSFetchPage \/ IOSFetchFails \/ IOSLoopExit \/ IOSReturn

(***************************************************************************)
(* Google Play connector, sync.                                            *)
(*                                                                         *)
(* nextPaginationToken is the number of the page it requests (0: none, the *)
(* first page); gplay.reviews returns no token with the last page.         *)
(***************************************************************************)
GPlaySources == Feeds

GPlayPageOf(token) == IF token = 0 THEN 1 ELSE token

\* gplay.reviews({paginate: true, nextPaginationToken})
GPlayReviews(src, token) ==
    LET p == GPlayPageOf(token)
    IN [data |-> FeedPage(src, p),
        nextPaginationToken |-> IF HasReview(src, p * PageSize + 1) THEN p + 1 ELSE 0]

GPlayInitLoc(cp) ==
    [allReviews |-> <<>>,
     nextPaginationToken |-> IF cp = Null THEN 0 ELSE cp.pagination_token,
     hitCheckpoint |-> FALSE]

GPlayLoopGuard == Len(loc.allReviews) < MAX_REVIEWS

\* the for loop over a page when there is a lastTimestamp: the reviews pushed,
\* and whether one at or before the checkpoint was met
RECURSIVE GPlayScan(_, _, _)
GPlayScan(data, T, i) ==
    IF i > Len(data) THEN [pushed |-> <<>>, hitCheckpoint |-> FALSE]
    ELSE IF data[i].ts > T
         THEN LET rest == GPlayScan(data, T, i + 1)
              IN [pushed |-> <<data[i]>> \o rest.pushed, hitCheckpoint |-> rest.hitCheckpoint]
         ELSE [pushed |-> <<>>, hitCheckpoint |-> TRUE]

GPlayFetchPage ==
    /\ connector = "gplay" /\ pc = "loop"
    /\ GPlayLoopGuard
    /\ fetches' = fetches + 1
    /\ LET reviewsResult == GPlayReviews(source, loc.nextPaginationToken)
           T == LastTimestamp(checkpoint)
           scan == IF T # 0 THEN GPlayScan(reviewsResult.data, T, 1)
                   ELSE [pushed |-> reviewsResult.data, hitCheckpoint |-> FALSE]
       IN IF Len(reviewsResult.data) = 0
          THEN /\ pc' = "build"
               /\ UNCHANGED <<loc, consumed>>
          ELSE /\ consumed' = consumed + Len(reviewsResult.data)
               /\ IF scan.hitCheckpoint
                  THEN /\ loc' = [loc EXCEPT !.allReviews = @ \o scan.pushed,
                                             !.hitCheckpoint = TRUE]
                       /\ pc' = "build"
                  ELSE /\ loc' = [loc EXCEPT !.allReviews = @ \o scan.pushed,
                                             !.nextPaginationToken =
                                                 reviewsResult.nextPaginationToken]
                       /\ pc' = IF reviewsResult.nextPaginationToken = 0
                                THEN "build" ELSE "loop"
    /\ raw' = raw \cup Range(GPlayReviews(source, loc.nextPaginationToken).data)
    /\ exhausted' = (Len(GPlayReviews(source, loc.nextPaginationToken).data) = 0
                     \/ GPlayReviews(source, loc.nextPaginationToken).nextPaginationToken = 0)
    /\ UNCHANGED <<connector, source, config, checkpoint, events, calls, result,
                   emittedBefore, enrichedBefore>>

\* gplay.reviews rejects: sync throws
GPlayFetchFails ==
    /\ connector = "gplay" /\ pc = "loop"
    /\ GPlayLoopGuard
    /\ fetches' = fetches + 1
    /\ pc' = "failed"
    /\ UNCHANGED <<connector, source, config, checkpoint, loc, events, consumed,
                   calls, result, raw, exhausted,
                   emittedBefore, enrichedBefore>>

GPlayLoopExit ==
    /\ connector = "gplay" /\ pc = "loop"
    /\ ~GPlayLoopGuard
    /\ pc' = "build"
    /\ UNCHANGED <<connector, source, config, checkpoint, loc, events, fetches,
                   consumed, calls, result, raw, exhausted,
                   emittedBefore, enrichedBefore>>

GPlayCheckpoint(evs, cp, token) ==
    IF Len(evs) > 0
    THEN [last_timestamp |-> evs[1].published_at, pagination_token |-> token]
    ELSE [last_timestamp |-> LastTimestamp(cp),
          pagination_token |-> IF cp = Null THEN 0 ELSE cp.pagination_token]

GPlayReturn ==
    /\ connector = "gplay" /\ pc = "build"
    /\ LET sorted == SortDesc(ReviewEvents(loc.allReviews))
       IN /\ events' = sorted
          /\ result' = GPlayCheckpoint(sorted, checkpoint, loc.nextPaginationToken)
    /\ pc' = "returned"
    /\ UNCHANGED <<connector, source, config, checkpoint, loc, fetches,
                   consumed, calls, raw, exhausted,
                   emittedBefore, enrichedBefore>>

GPlayNext == GPlayFetchPage \/ GPlayFetchFails \/ GPlayLoopExit \/ GPlayReturn

(***************************************************************************)
(* X connector, sync.                                                      *)
(*                                                                         *)
(* The site holds the tweets XTweetIds, tweet i published at time i, and   *)
(* one more, a reply newer than all of them.  source.search is what the    *)
(* primary search yields, in the site's order (repeats allowed);           *)
(* source.kind gives each tweet its engagement score and reply count.  A   *)
(* conversation search fails, or yields a list of replies.                 *)
(***************************************************************************)
XTweetIds == {1, 2, 3}

XReplyId == Cardinality(XTweetIds) + 1

\* (score, reply_count) of a tweet, around the thresholds 100 and 30
XKinds == {[score |-> 99, reply_count |-> 0], [score |-> 99, reply_count |-> 31],
           [score |-> 100, reply_count |-> 0]}

XSources == {[search |-> q, kind |-> k] :
                q \in SeqsUpTo(XTweetIds, MaxSearch), k \in [XTweetIds -> XKinds]}

XConfigs == {[max_threads_to_fetch |-> b, min_engagement_for_threads |-> 100] :
                b \in 1..MaxBudget}

XmaxResults == 5000

\* published_at of a tweet; the time of the run itself (new Date()) is later
XTime(id) == id

XNow == XReplyId + 1

\* the for-await loop of the primary search: the tweets kept, the ids seen, and
\* whether the checkpoint's last_tweet_id was met
RECURSIVE XScanSearch(_, _, _, _, _)
XScanSearch(results, i, lastTweetId, tweets, seenIds) ==
    IF i > Len(results) \/ Len(tweets) >= XmaxResults
    THEN [tweets |-> tweets, seenIds |-> seenIds, foundCheckpoint |-> FALSE]
    ELSE IF results[i] \in seenIds
         THEN XScanSearch(results, i + 1, lastTweetId, tweets, seenIds)
    ELSE IF lastTweetId # 0 /\ results[i] = lastTweetId
         THEN [tweets |-> tweets, seenIds |-> seenIds, foundCheckpoint |-> TRUE]
    ELSE XScanSearch(results, i + 1, lastTweetId, Append(tweets, results[i]),
                     seenIds \cup {results[i]})

\* a tweet of the primary search as an event
XTweetEvent(src, id) ==
    [external_id |-> id, published_at |-> XTime(id), kind |-> "tweet",
     score |-> src.kind[id].score, reply_count |-> src.kind[id].reply_count]

\* a reply of the conversation of root as an event
XReplyEvent(id, root) ==
    [external_id |-> id, published_at |-> XTime(id), kind |-> "reply",
     score |-> 0, reply_count |-> 0]

\* the filter that makes candidateTweets
XQualifies(ev, minEngagement) == ev.score >= minEngagement \/ ev.reply_count > 30

\* faulty variant: the budget is cut before the ranking
XTweetsForThreads_SliceFirst(evs, minEngagement, maxThreads) ==
    LET candidateTweets == SelectSeq(evs, LAMBDA ev : XQualifies(ev, minEngagement))
        n == IF Len(candidateTweets) < maxThreads THEN Len(candidateTweets) ELSE maxThreads
    IN SortDescBy(SubSeq(candidateTweets, 1, n), "score")

\* candidateTweets.sort(by score, descending).slice(0, maxThreads)
XTweetsForThreads(evs, minEngagement, maxThreads) ==
    LET candidateTweets == SelectSeq(evs, LAMBDA ev : XQualifies(ev, minEngagement))
        ranked == SortDescBy(candidateTweets, "score")
    IN SubSeq(ranked, 1, IF Len(ranked) < maxThreads THEN Len(ranked) ELSE maxThreads)

XLastTweetId(cp) == IF cp = Null THEN 0 ELSE cp.last_tweet_id

\* faulty variant: the set of the input checkpoint is not read
XProcessed_Empty(cp) == {}

XProcessed(cp) == IF cp = Null THEN {} ELSE cp.processed_thread_ids

XInitLoc == [tweetsForThreads |-> <<>>, i |-> 1, processedThreadIds |-> {},
             foundCheckpoint |-> FALSE]

\* the replies a conversation search of root may yield: none, the reply tweet,
\* or a tweet that the primary search knows too
XConversations(root) == {<<>>, <<XReplyId>>, <<(root % Cardinality(XTweetIds)) + 1>>}

\* faulty variant: the error of one thread is thrown on
XOnThreadError_Rethrow == "rethrow"

\* the catch around one thread's collection: the loop goes on
XOnThreadError == "continue"

\* the primary search, the transformation and the choice of the threads to fetch
XSearch ==
    /\ connector = "x" /\ pc = "loop"
    /\ LET scan == XScanSearch(source.search, 1, XLastTweetId(checkpoint), <<>>, {})
           evs == [i \in 1..Len(scan.tweets) |-> XTweetEvent(source, scan.tweets[i])]
       IN /\ events' = evs
          /\ consumed' = Len(scan.tweets)
          /\ loc' = [tweetsForThreads |->
                         XTweetsForThreads(evs, config.min_engagement_for_threads,
                                           config.max_threads_to_fetch),
                     i |-> 1,
                     processedThreadIds |-> XProcessed(checkpoint),
                     foundCheckpoint |-> scan.foundCheckpoint]
    /\ fetches' = fetches + 1
    /\ pc' = "threads"
    /\ UNCHANGED <<connector, source, config, checkpoint, calls, result,
                   raw, exhausted,
                   emittedBefore, enrichedBefore>>

\* the primary search throws: the outer catch rethrows
XSearchFails ==
    /\ connector = "x" /\ pc = "loop"
    /\ fetches' = fetches + 1
    /\ pc' = "failed"
    /\ UNCHANGED <<connector, source, config, checkpoint, loc, events, consumed,
                   calls, result, raw, exhausted,
                   emittedBefore, enrichedBefore>>

\* a root tweet whose thread an earlier run fetched: continue
XThreadSkip ==
    /\ connector = "x" /\ pc = "threads"
    /\ loc.i <= Len(loc.tweetsForThreads)
    /\ loc.tweetsForThreads[loc.i].external_id \in loc.processedThreadIds
    /\ loc' = [loc EXCEPT !.i = @ + 1]
    /\ UNCHANGED <<connector, source, config, checkpoint, pc, events, fetches,
                   consumed, calls, result, raw, exhausted,
                   emittedBefore, enrichedBefore>>

\* the conversation search of the next root tweet succeeds
XThreadFetched ==
    /\ connector = "x" /\ pc = "threads"
    /\ loc.i <= Len(loc.tweetsForThreads)
    /\ LET root == loc.tweetsForThreads[loc.i].external_id
       IN /\ root \notin loc.processedThreadIds
          /\ \E replies \in XConversations(root) :
                events' = events \o [j \in 1..Len(replies) |-> XReplyEvent(replies[j], root)]
          /\ calls' = Append(calls, [id |-> root, ok |-> TRUE])
          /\ loc' = [loc EXCEPT !.i = @ + 1,
                                !.processedThreadIds = @ \cup {root}]
    /\ UNCHANGED <<connector, source, config, checkpoint, pc, fetches, consumed,
                   result, raw, exhausted,
                   emittedBefore, enrichedBefore>>

\* the conversation search of the next root tweet throws
XThreadFails ==
    /\ connector = "x" /\ pc = "threads"
    /\ loc.i <= Len(loc.tweetsForThreads)
    /\ LET root == loc.tweetsForThreads[loc.i].external_id
       IN /\ root \notin loc.processedThreadIds
          /\ calls' = Append(calls, [id |-> root, ok |-> FALSE])
    /\ IF XOnThreadError = "continue"
       THEN /\ loc' = [loc EXCEPT !.i = @ + 1]
            /\ pc' = pc
       ELSE /\ pc' = "failed"
            /\ loc' = loc
    /\ UNCHANGED <<connector, source, config, checkpoint, events, fetches, consumed,
                   result, raw, exhausted,
                   emittedBefore, enrichedBefore>>

\* faulty variant: the threads of this run are not added to processed_thread_ids
XCheckpoint_DropsProcessed(sorted, cp, processedThreadIds) ==
    IF Len(sorted) > 0
    THEN [last_tweet_id |-> sorted[1].external_id,
          last_timestamp |-> sorted[1].published_at,
          processed_thread_ids |-> XProcessed(cp)]
    ELSE [last_tweet_id |-> XLastTweetId(cp),
          last_timestamp |-> IF LastTimestamp(cp) # 0 THEN LastTimestamp(cp) ELSE XNow,
          processed_thread_ids |-> XProcessed(cp)]

\* the checkpoint built after the final sort
XCheckpoint(sorted, cp, processedThreadIds) ==
    IF Len(sorted) > 0
    THEN [last_tweet_id |-> sorted[1].external_id,
          last_timestamp |-> sorted[1].published_at,
          processed_thread_ids |-> processedThreadIds]
    ELSE [last_tweet_id |-> XLastTweetId(cp),
          last_timestamp |-> IF LastTimestamp(cp) # 0 THEN LastTimestamp(cp) ELSE XNow,
          processed_thread_ids |-> XProcessed(cp)]

\* the loop over tweetsForThreads is over: sort, build the checkpoint, return
XReturn ==
    /\ connector = "x" /\ pc = "threads"
    /\ loc.i > Len(loc.tweetsForThreads)
    /\ LET sorted == SortDesc(events)
       IN /\ events' = sorted
          /\ result' = XCheckpoint(sorted, checkpoint, loc.processedThreadIds)
    /\ pc' = "returned"
    /\ UNCHANGED <<connector, source, config, checkpoint, loc, fetches, consumed,
                   calls, raw, exhausted,
                   emittedBefore, enrichedBefore>>

XNext == XSearch \/ XSearchFails \/ XThreadSkip \/ XThreadFetched \/ XThreadFails
         \/ XReturn

(***************************************************************************)
(* The chain of runs: the host stores the returned checkpoint and hands it *)
(* to the next run.                                                        *)
(***************************************************************************)
InitLoc(c, cp) ==
    CASE c = "reddit" -> RedditInitLoc
      [] c = "hn" -> HNInitLoc
      [] c = "ios" -> IOSInitLoc
      [] c = "gplay" -> GPlayInitLoc(cp)
      [] c = "x" -> XInitLoc

SourcesOf(c) ==
    CASE c = "reddit" -> RedditSources
      [] c = "hn" -> HNSources
      [] c = "ios" -> IOSSources
      [] c = "gplay" -> GPlaySources
      [] c = "x" -> XSources

ConfigsOf(c) ==
    CASE c = "reddit" -> {[search_terms |-> b] : b \in BOOLEAN}
      [] c = "hn" -> {[content_type |-> t] : t \in {"story", "comment"}}
      [] c = "ios" -> {Null}
      [] c = "gplay" -> {Null}
      [] c = "x" -> XConfigs

\* the checkpoint the host holds when the chain starts
CheckpointsOf(c) ==
    CASE c = "reddit" -> {Null}
      [] c = "hn" -> {Null}
      [] c = "ios" -> {Null} \cup {[last_timestamp |-> t] : t \in 1..MaxTs}
      [] c = "gplay" -> {Null} \cup {[last_timestamp |-> t, pagination_token |-> 0] :
                                         t \in 1..MaxTs}
      [] c = "x" -> {Null}

\* the connectors a specification follows
InitOf(cs) ==
    /\ connector \in cs
    /\ source \in SourcesOf(connector)
    /\ config \in ConfigsOf(connector)
    /\ checkpoint \in CheckpointsOf(connector)
    /\ pc = "loop"
    /\ loc = InitLoc(connector, checkpoint)
    /\ events = <<>>
    /\ fetches = 0
    /\ consumed = 0
    /\ raw = {}
    /\ exhausted = FALSE
    /\ calls = <<>>
    /\ result = Null
    /\ emittedBefore = {}
    /\ enrichedBefore = {}

\* the next scheduled sync, with the checkpoint the last one returned
NextRun ==
    /\ pc = "returned"
    /\ checkpoint' = result
    /\ emittedBefore' = emittedBefore \cup Ids(events)
    /\ enrichedBefore' = enrichedBefore \cup {calls[i].id : i \in {j \in 1..Len(calls) : calls[j].ok}}
    /\ pc' = "loop"
    /\ loc' = InitLoc(connector, result)
    /\ events' = <<>>
    /\ fetches' = 0
    /\ consumed' = 0
    /\ raw' = {}
    /\ exhausted' = FALSE
    /\ calls' = <<>>
    /\ result' = Null
    /\ UNCHANGED <<connector, source, config>>

\* the paginating connectors
PagingInit == InitOf({"reddit", "hn", "ios", "gplay"})

PagingNext == RedditNext \/ HNNext \/ IOSNext \/ GPlayNext \/ NextRun

PagingSpec == PagingInit /\ [][PagingNext]_vars

\* every request is answered or fails in the end, and the host goes on scheduling
PagingFairSpec == PagingSpec /\ WF_vars(PagingNext)

\* the connectors with an enrichment pass
EnrichInit == InitOf({"x", "hn"})

EnrichNext == XNext \/ HNNext \/ NextRun

EnrichSpec == EnrichInit /\ [][EnrichNext]_vars

(***************************************************************************)
(* The connectors that render pages in a browser: Glassdoor, Capterra, G2. *)
(*                                                                         *)
(* loc holds the browser the run launched ("none", "open", "closed"),      *)
(* whether newPage has returned a page, the number of calls of             *)
(* browser.close(), and whether an error is being thrown.  Every awaited   *)
(* call of the browser may reject.                                         *)
(***************************************************************************)
\* review cards on one rendered page
MaxCards == 2

G2maxPages == 5

BrowserInitLoc ==
    [browser |-> "none", page |-> FALSE, closeCalls |-> 0, pageNum |-> 1,
     thrown |-> FALSE, error |-> "none"]

\* the events made of n review cards of page p
CardEvents(c, p, n) == [i \in 1..n |-> [external_id |-> <<c, p, i>>, published_at |-> 0]]

\* what the browser families' steps leave alone
BrowserFrame ==
    UNCHANGED <<connector, source, config, checkpoint, fetches, consumed, raw,
                exhausted, calls, emittedBefore, enrichedBefore>>

\* faulty variant: browser.close() is not called
Closed_NotCalled(l, ok) == l

\* browser.close(): the call is counted; the browser is closed unless it rejects
Closed(l, ok) ==
    [l EXCEPT !.closeCalls = @ + 1, !.browser = IF ok THEN "closed" ELSE @]

\* if (!company_name) return { events: [], checkpoint: ctx.checkpoint, ... error }
GlassdoorInvalidConfig ==
    /\ connector = "glassdoor" /\ pc = "start"
    /\ ~config.company_name
    /\ result' = checkpoint
    /\ loc' = [loc EXCEPT !.error = "company_name is required"]
    /\ pc' = "returned"
    /\ UNCHANGED events
    /\ BrowserFrame

GlassdoorLaunch ==
    /\ connector = "glassdoor" /\ pc = "start"
    /\ config.company_name
    /\ \E ok \in BOOLEAN :
          IF ok THEN loc' = [loc EXCEPT !.browser = "open"] /\ pc' = "newPage"
          ELSE loc' = loc /\ pc' = "failed"
    /\ UNCHANGED <<events, result>>
    /\ BrowserFrame

\* browser.newPage() stands before the try: its rejection leaves sync at once
GlassdoorNewPage ==
    /\ connector = "glassdoor" /\ pc = "newPage"
    /\ \E ok \in BOOLEAN :
          IF ok THEN loc' = [loc EXCEPT !.page = TRUE] /\ pc' = "try"
          ELSE loc' = loc /\ pc' = "failed"
    /\ UNCHANGED <<events, result>>
    /\ BrowserFrame

\* the try block up to the events: navigation and extraction
GlassdoorExtract ==
    /\ connector = "glassdoor" /\ pc = "try"
    /\ \E ok \in BOOLEAN, n \in 0..MaxCards :
          IF ok THEN events' = CardEvents("glassdoor", 1, n) /\ pc' = "close"
          ELSE events' = events /\ pc' = "catch"
    /\ UNCHANGED <<loc, result>>
    /\ BrowserFrame

\* await browser.close(); return {...}, still inside the try
GlassdoorClose ==
    /\ connector = "glassdoor" /\ pc = "close"
    /\ \E ok \in BOOLEAN :
          /\ loc' = Closed(loc, ok)
          /\ IF ok THEN result' = [last_sync_at |-> "now"] /\ pc' = "returned"
             ELSE result' = result /\ pc' = "catch"
    /\ UNCHANGED events
    /\ BrowserFrame

\* catch: await captureErrorArtifacts(page, ...), which may reject itself
GlassdoorCapture ==
    /\ connector = "glassdoor" /\ pc = "catch"
    /\ \E ok \in BOOLEAN : pc' = IF ok THEN "catchClose" ELSE "failed"
    /\ UNCHANGED <<loc, events, result>>
    /\ BrowserFrame

\* catch: await browser.close(); throw error
GlassdoorCatchClose ==
    /\ connector = "glassdoor" /\ pc = "catchClose"
    /\ \E ok \in BOOLEAN : loc' = Closed(loc, ok)
    /\ pc' = "failed"
    /\ UNCHANGED <<events, result>>
    /\ BrowserFrame

GlassdoorNext ==
    \/ GlassdoorInvalidConfig \/ GlassdoorLaunch \/ GlassdoorNewPage
    \/ GlassdoorExtract \/ GlassdoorClose \/ GlassdoorCapture \/ GlassdoorCatchClose

CapterraLaunch ==
    /\ connector = "capterra" /\ pc = "start"
    /\ \E ok \in BOOLEAN :
          IF ok THEN loc' = [loc EXCEPT !.browser = "open"] /\ pc' = "newPage"
          ELSE loc' = loc /\ pc' = "failed"
    /\ UNCHANGED <<events, result>>
    /\ BrowserFrame

\* page = await browser.newPage(), inside the try
CapterraNewPage ==
    /\ connector = "capterra" /\ pc = "newPage"
    /\ \E ok \in BOOLEAN :
          IF ok THEN loc' = [loc EXCEPT !.page = TRUE] /\ pc' = "try"
          ELSE loc' = loc /\ pc' = "catch"
    /\ UNCHANGED <<events, result>>
    /\ BrowserFrame

CapterraExtract ==
    /\ connector = "capterra" /\ pc = "try"
    /\ \E ok \in BOOLEAN, n \in 0..MaxCards :
          IF ok THEN events' = CardEvents("capterra", 1, n) /\ pc' = "close"
          ELSE events' = events /\ pc' = "catch"
    /\ UNCHANGED <<loc, result>>
    /\ BrowserFrame

CapterraClose ==
    /\ connector = "capterra" /\ pc = "close"
    /\ \E ok \in BOOLEAN :
          /\ loc' = Closed(loc, ok)
          /\ IF ok THEN result' = [last_sync_at |-> "now"] /\ pc' = "returned"
             ELSE result' = result /\ pc' = "catch"
    /\ UNCHANGED events
    /\ BrowserFrame

\* catch: if (page) await captureErrorArtifacts(page, ...)
CapterraCapture ==
    /\ connector = "capterra" /\ pc = "catch"
    /\ IF loc.page
       THEN \E ok \in BOOLEAN : pc' = IF ok THEN "catchClose" ELSE "failed"
       ELSE pc' = "catchClose"
    /\ UNCHANGED <<loc, events, result>>
    /\ BrowserFrame

CapterraCatchClose ==
    /\ connector = "capterra" /\ pc = "catchClose"
    /\ \E ok \in BOOLEAN : loc' = Closed(loc, ok)
    /\ pc' = "failed"
    /\ UNCHANGED <<events, result>>
    /\ BrowserFrame

CapterraNext ==
    \/ CapterraLaunch \/ CapterraNewPage \/ CapterraExtract \/ CapterraClose
    \/ CapterraCapture \/ CapterraCatchClose

\* productUrl?.match(/^https:\/\/www\.g2\.com\/products\/[^/]+\/reviews/)
G2UrlMatches(cfg) == cfg.product_url = "reviews url"

\* the url does not match: return { events: [], checkpoint: ctx.checkpoint, ... error }
G2InvalidConfig ==
    /\ connector = "g2" /\ pc = "start"
    /\ ~G2UrlMatches(config)
    /\ result' = checkpoint
    /\ loc' = [loc EXCEPT !.error = "Invalid product_url"]
    /\ pc' = "returned"
    /\ UNCHANGED events
    /\ BrowserFrame

G2Launch ==
    /\ connector = "g2" /\ pc = "start"
    /\ G2UrlMatches(config)
    /\ \E ok \in BOOLEAN :
          IF ok THEN loc' = [loc EXCEPT !.browser = "open"] /\ pc' = "newPage"
          ELSE loc' = loc /\ pc' = "failed"
    /\ UNCHANGED <<events, result>>
    /\ BrowserFrame

\* const page = await browser.newPage(), inside try ... finally
G2NewPage ==
    /\ connector = "g2" /\ pc = "newPage"
    /\ \E ok \in BOOLEAN :
          IF ok THEN loc' = [loc EXCEPT !.page = TRUE] /\ pc' = "page"
          ELSE loc' = [loc EXCEPT !.thrown = TRUE] /\ pc' = "finally"
    /\ UNCHANGED <<events, result>>
    /\ BrowserFrame

\* one iteration of the for loop: the page renders n review cards, or shows no
\* review in time (break), or navigation or extraction rejects
G2Page ==
    /\ connector = "g2" /\ pc = "page"
    /\ loc.pageNum <= G2maxPages
    /\ \E outcome \in {"cards", "no selector", "rejects"}, n \in 0..MaxCards :
          CASE outcome = "rejects" ->
                 /\ n = 0
                 /\ loc' = [loc EXCEPT !.thrown = TRUE]
                 /\ pc' = "finally"
                 /\ events' = events
            [] outcome = "no selector" ->
                 /\ n = 0
                 /\ loc' = loc
                 /\ pc' = "finally"
                 /\ events' = events
            [] outcome = "cards" ->
                 /\ events' = events \o CardEvents("g2", loc.pageNum, n)
                 /\ IF n = 0
                    THEN loc' = loc /\ pc' = "finally"
                    ELSE loc' = [loc EXCEPT !.pageNum = @ + 1] /\ pc' = "page"
    /\ UNCHANGED result
    /\ BrowserFrame

G2LoopExit ==
    /\ connector = "g2" /\ pc = "page"
    /\ loc.pageNum > G2maxPages
    /\ pc' = "finally"
    /\ UNCHANGED <<loc, events, result>>
    /\ BrowserFrame

\* finally { await browser.close() }
G2Finally ==
    /\ connector = "g2" /\ pc = "finally"
    /\ \E ok \in BOOLEAN :
          /\ loc' = Closed(loc, ok)
          /\ pc' = IF loc.thrown \/ ~ok THEN "failed" ELSE "build"
    /\ UNCHANGED <<events, result>>
    /\ BrowserFrame

\* pages_crawled: Math.min(5, events > 0 ? Math.ceil(events / 10) : 0)
G2PagesCrawled(n) == IF n = 0 THEN 0 ELSE IF (n + 9) \div 10 < 5 THEN (n + 9) \div 10 ELSE 5

G2Return ==
    /\ connector = "g2" /\ pc = "build"
    /\ result' = [last_sync_at |-> "now", pages_crawled |-> G2PagesCrawled(Len(events))]
    /\ pc' = "returned"
    /\ UNCHANGED <<loc, events>>
    /\ BrowserFrame

G2Next == G2InvalidConfig \/ G2Launch \/ G2NewPage \/ G2Page \/ G2LoopExit
          \/ G2Finally \/ G2Return

BrowserConfigs(c) ==
    CASE c = "glassdoor" -> {[company_name |-> b] : b \in BOOLEAN}
      [] c = "capterra" -> {Null}
      [] c = "g2" -> {[product_url |-> u] : u \in {"reviews url", "other url", "missing"}}

BrowserInit ==
    /\ connector \in {"glassdoor", "capterra", "g2"}
    /\ source = Null
    /\ config \in BrowserConfigs(connector)
    /\ checkpoint \in {Null, [last_sync_at |-> "before"]}
    /\ pc = "start"
    /\ loc = BrowserInitLoc
    /\ events = <<>>
    /\ fetches = 0
    /\ consumed = 0
    /\ raw = {}
    /\ exhausted = FALSE
    /\ calls = <<>>
    /\ result = Null
    /\ emittedBefore = {}
    /\ enrichedBefore = {}

BrowserNext == GlassdoorNext \/ CapterraNext \/ G2Next

BrowserSpec == BrowserInit /\ [][BrowserNext]_vars

(***************************************************************************)
(* Crawlers on one shared instance (GitHubCrawler, RedditCrawler).         *)
(*                                                                         *)
(* Two runs of pull are started on the same crawler object, each with its  *)
(* own options, and interleave at their awaits.  The object's fields       *)
(* (currentOptions, baseUrl) are loc.currentOptions and loc.baseUrl; what  *)
(* belongs to one call of pull is loc.run[r].  The inherited paginate      *)
(* drives the loop: fetch a page, derive the parent id of each item of the *)
(* page (getParentId), stop when the page names no next cursor.            *)
(***************************************************************************)

Runs == {1, 2}

\* the pages one run may fetch
MaxCrawlPages == 2

GitHubCrawlerOptions ==
    [repo_name : {"a", "b"},
     content_type : {"issues", "issue_comments", "pr_comments", "discussions"}]

RedditCrawlerOptions ==
    [subreddit : {"a", "b"}, content_type : {"posts", "comments"}]

CrawlerOptions(c) ==
    IF c = "githubCrawler" THEN GitHubCrawlerOptions ELSE RedditCrawlerOptions

\* what the endpoint of a content type can answer: the place of html_url
\* that getParentId matches, or the kind of parent_id of a Reddit thing
CrawlerItemKinds(c, o) ==
    CASE c = "githubCrawler" /\ o.content_type = "issues" -> {"issues/N", "pull/N"}
      [] c = "githubCrawler" /\ o.content_type = "issue_comments" -> {"issues/N#", "pull/N#"}
      [] c = "githubCrawler" /\ o.content_type = "pr_comments" -> {"pull/N#"}
      [] c = "githubCrawler" /\ o.content_type = "discussions" -> {"no html_url"}
      [] c = "redditCrawler" /\ o.content_type = "comments" -> {"t1_", "t3_"}
      [] c = "redditCrawler" /\ o.content_type = "posts" -> {"no parent_id"}

\* GitHubCrawler.getParentId(item), reading the options `co`
GitHubGetParentId(co, item) ==
    IF co = Null THEN Null
    ELSE IF item.kind = "issues/N#" /\ co.content_type = "issue_comments"
         THEN [parent |-> "issue", repo |-> co.repo_name, n |-> item.n]
    ELSE IF item.kind = "pull/N#" /\ co.content_type = "pr_comments"
         THEN [parent |-> "pr", repo |-> co.repo_name, n |-> item.n]
    ELSE Null

\* RedditCrawler.getParentId(item), reading the options `co`
RedditGetParentId(co, item) ==
    IF co = Null THEN Null
    ELSE IF co.content_type # "comments" THEN Null
    ELSE IF item.kind = "t1_" THEN [parent |-> "comment", n |-> item.n]
    ELSE IF item.kind = "t3_" THEN [parent |-> "post", n |-> item.n]
    ELSE Null

CrawlerGetParentId(c, co, item) ==
    IF c = "githubCrawler" THEN GitHubGetParentId(co, item)
    ELSE RedditGetParentId(co, item)

\* the parent map of a list of items: an entry for every non-null parent id
ParentMap(c, co, items) ==
    {<<items[i].n, CrawlerGetParentId(c, co, items[i])>> :
        i \in {j \in 1..Len(items) : CrawlerGetParentId(c, co, items[j]) # Null}}

\* GitHubCrawler.buildPageUrl(cursor, options)
GitHubBuildPageUrl(cursor, o) ==
    IF o.content_type \in {"discussions"}
    THEN [base |-> "api.github.com", path |-> "graphql", target |-> o.repo_name,
          cursor |-> cursor]
    ELSE [base |-> "api.github.com", path |-> o.content_type, target |-> o.repo_name,
          cursor |-> cursor]

\* RedditCrawler.buildPageUrl(cursor, options), reading this.baseUrl
RedditBuildPageUrl(baseUrl, cursor, o) ==
    [base |-> baseUrl,
     path |-> IF o.content_type = "comments" THEN "comments.json" ELSE "new.json",
     target |-> o.subreddit, cursor |-> cursor]

\* getClientAndBaseUrl(env)
RedditBaseUrl(env) == IF env = "token" THEN "oauth.reddit.com" ELSE "www.reddit.com"

CrawlerInitRun(o, env, fn) ==
    [pc |-> "idle", options |-> o, env |-> env, updateCheckpointFn |-> fn,
     cursor |-> 0, pageCount |-> 0, items |-> <<>>, parentMap |-> {},
     urls |-> <<>>, fetchFailed |-> FALSE, flushed |-> 0, checkpoint |-> Null]

CrawlerFrame ==
    UNCHANGED <<connector, source, config, checkpoint, pc, events, fetches,
                consumed, raw, exhausted, calls, result, emittedBefore,
                enrichedBefore>>

\* pull: this.currentOptions = options; then paginate starts
CrawlerPull(r) ==
    /\ connector \in {"githubCrawler", "redditCrawler"}
    /\ loc.run[r].pc = "idle"
    /\ loc' = [loc EXCEPT !.currentOptions = loc.run[r].options,
                          !.run[r].pc = "loop"]
    /\ CrawlerFrame

\* GitHubCrawler.fetchPage up to its await: the URL is built from the options
\* it was called with
GitHubCrawlerFetchPage(r) ==
    /\ connector = "githubCrawler"
    /\ loc.run[r].pc = "loop"
    /\ loc' = [loc EXCEPT
                 !.run[r].urls = Append(@, GitHubBuildPageUrl(loc.run[r].cursor,
                                                              loc.run[r].options)),
                 !.run[r].pc = "awaiting"]
    /\ CrawlerFrame

\* RedditCrawler.fetchPage up to its first await
RedditCrawlerFetchPage(r) ==
    /\ connector = "redditCrawler"
    /\ loc.run[r].pc = "loop"
    /\ loc' = [loc EXCEPT !.run[r].pc = "client"]
    /\ CrawlerFrame

\* ... and on: this.baseUrl = baseUrl; const url = this.buildPageUrl(...)
RedditCrawlerBuildUrl(r) ==
    /\ connector = "redditCrawler"
    /\ loc.run[r].pc = "client"
    /\ LET base == RedditBaseUrl(loc.run[r].env) IN
       loc' = [loc EXCEPT
                 !.baseUrl = base,
                 !.run[r].urls = Append(@, RedditBuildPageUrl(base, loc.run[r].cursor,
                                                              loc.run[r].options)),
                 !.run[r].pc = "awaiting"]
    /\ CrawlerFrame

\* the page arrives: its items are linked to their parents, the checkpoint in
\* progress is flushed when the caller gave updateCheckpointFn, and the loop
\* goes on while the page names a next cursor
CrawlerPage(r) ==
    /\ connector \in {"githubCrawler", "redditCrawler"}
    /\ loc.run[r].pc = "awaiting"
    /\ \E k \in CrawlerItemKinds(connector, loc.run[r].options), more \in BOOLEAN :
          LET item == [n |-> loc.run[r].pageCount + 1, kind |-> k]
              parent == CrawlerGetParentId(connector, loc.currentOptions, item)
              goOn == more /\ loc.run[r].pageCount + 1 < MaxCrawlPages
          IN  loc' = [loc EXCEPT
                        !.run[r].items = Append(@, item),
                        !.run[r].parentMap =
                            IF parent = Null THEN @ ELSE @ \cup {<<item.n, parent>>},
                        !.run[r].flushed =
                            IF loc.run[r].updateCheckpointFn THEN @ + 1 ELSE @,
                        !.run[r].cursor = IF goOn THEN @ + 1 ELSE 0,
                        !.run[r].pageCount = @ + 1,
                        !.run[r].pc = IF goOn THEN "loop" ELSE "paginated"]
    /\ CrawlerFrame

\* the request fails: fetchDiscussionsPage logs the error and answers an empty
\* last page; every other fetchPage throws
CrawlerPageFails(r) ==
    /\ connector \in {"githubCrawler", "redditCrawler"}
    /\ loc.run[r].pc = "awaiting"
    /\ IF connector = "githubCrawler" /\ loc.run[r].options.content_type = "discussions"
       THEN loc' = [loc EXCEPT !.run[r].fetchFailed = TRUE,
                               !.run[r].cursor = 0,
                               !.run[r].pc = "paginated"]
       ELSE loc' = [loc EXCEPT !.run[r].fetchFailed = TRUE,
                               !.run[r].pc = "failed"]
    /\ CrawlerFrame

\* the checkpoint paginate hands back (createCheckpoint)
CrawlerNewCheckpoint(run) ==
    [pagination_token |-> run.cursor, total_items_processed |-> Len(run.items)]

\* pull after paginate: GitHubCrawler returns paginate's checkpoint,
\* RedditCrawler returns checkpoint: null
CrawlerReturn(r) ==
    /\ connector \in {"githubCrawler", "redditCrawler"}
    /\ loc.run[r].pc = "paginated"
    /\ loc' = [loc EXCEPT
                 !.run[r].checkpoint =
                     IF connector = "githubCrawler"
                     THEN CrawlerNewCheckpoint(loc.run[r]) ELSE Null,
                 !.run[r].pc = "returned"]
    /\ CrawlerFrame

CrawlerInit ==
    /\ connector \in {"githubCrawler", "redditCrawler"}
    /\ source = Null
    /\ config = Null
    /\ checkpoint = Null
    /\ pc = "crawl"
    /\ \E o1, o2 \in CrawlerOptions(connector), fn \in BOOLEAN,
          e \in (IF connector = "redditCrawler" THEN {"token", "no token"} ELSE {"token"}) :
          loc = [currentOptions |-> Null, baseUrl |-> "www.reddit.com",
                 run |-> [r \in Runs |->
                            CrawlerInitRun(IF r = 1 THEN o1 ELSE o2,
                                           IF r = 1 THEN "token" ELSE e,
                                           IF r = 1 THEN fn ELSE FALSE)]]
    /\ events = <<>>
    /\ fetches = 0
    /\ consumed = 0
    /\ raw = {}
    /\ exhausted = FALSE
    /\ calls = <<>>
    /\ result = Null
    /\ emittedBefore = {}
    /\ enrichedBefore = {}

CrawlerNext ==
    \E r \in Runs :
        \/ CrawlerPull(r)
        \/ GitHubCrawlerFetchPage(r)
        \/ RedditCrawlerFetchPage(r)
        \/ RedditCrawlerBuildUrl(r)
        \/ CrawlerPage(r)
        \/ CrawlerPageFails(r)
        \/ CrawlerReturn(r)

CrawlerSpec == CrawlerInit /\ [][CrawlerNext]_vars

(***************************************************************************)
(* Raw items whose date cannot be parsed (iOS App Store, Google Play and   *)
(* GitHub connectors, sync).                                               *)
(*                                                                         *)
(* A first run (no checkpoint) has collected the raw items source.items,   *)
(* item i with the date source.items[i]: a time 1..MaxTs, or a text that   *)
(* new Date() turns into an Invalid Date, whose getTime() is NaN.  The     *)
(* model follows the run from there: the events, their sort, the           *)
(* checkpoint.                                                             *)
(***************************************************************************)

\* the raw items one run has collected
MaxRaw == 3

\* getTime() of an Invalid Date
InvalidDate == 0 - 1

RawDates == SeqsUpTo(1..MaxTs \cup {InvalidDate}, MaxRaw)

\* allReviews.map(review => ({ ..., published_at: new Date(review date) }))
DatedEvents(dates) ==
    [i \in 1..Len(dates) |-> [external_id |-> i, published_at |-> dates[i]]]

\* (a, b) => b.published_at.getTime() - a.published_at.getTime() is a
\* consistent comparator: no NaN among the times, or all the other times equal
\* (a NaN result counts as +0)
ConsistentComparator(evs) ==
    \/ \A i \in 1..Len(evs) : evs[i].published_at # InvalidDate
    \/ \A i, j \in 1..Len(evs) :
          evs[i].published_at # InvalidDate /\ evs[j].published_at # InvalidDate
             => evs[i].published_at = evs[j].published_at

\* events.sort(comparator): the stable descending order under a consistent
\* comparator, the given order when every comparison answers 0, and an order
\* the implementation chooses when the comparator is not consistent
SortOutcomes(evs) ==
    IF \A i \in 1..Len(evs) : evs[i].published_at # InvalidDate
    THEN {SortDesc(evs)}
    ELSE IF ConsistentComparator(evs) THEN {evs}
    ELSE {[i \in 1..Len(evs) |-> evs[p[i]]] : p \in Permutations(1..Len(evs))}

DatesFrame ==
    UNCHANGED <<connector, source, config, checkpoint, fetches, consumed, raw,
                exhausted, calls, emittedBefore, enrichedBefore>>

\* iOS, Google Play: the events of all collected reviews, sorted
ReviewsTransform ==
    /\ connector \in {"ios", "gplay"} /\ pc = "transform"
    /\ events' \in SortOutcomes(DatedEvents(source.items))
    /\ pc' = "checkpoint"
    /\ UNCHANGED <<loc, result>>
    /\ DatesFrame

\* iOS, Google Play: last_timestamp: events[0].published_at.toISOString(),
\* which throws a RangeError on an Invalid Date; then the return
ReviewsCheckpoint ==
    /\ connector \in {"ios", "gplay"} /\ pc = "checkpoint"
    /\ IF Len(events) = 0
       THEN result' = [last_timestamp |-> LastTimestamp(checkpoint)] /\ pc' = "returned"
       ELSE IF events[1].published_at = InvalidDate
            THEN result' = result /\ pc' = "failed"
            ELSE result' = [last_timestamp |-> events[1].published_at]
                 /\ pc' = "returned"
    /\ UNCHANGED <<loc, events>>
    /\ DatesFrame

\* GitHub, syncIssuesAndPulls: one turn of for (const item of items)
GitHubIssueStep ==
    /\ connector = "github" /\ pc = "items"
    /\ loc.i <= Len(source.items)
    /\ events' = IF source.items[loc.i] = InvalidDate
                 THEN events
                 ELSE Append(events, [external_id |-> loc.i,
                                      published_at |-> source.items[loc.i]])
    /\ loc' = [loc EXCEPT !.i = @ + 1]
    /\ UNCHANGED <<pc, result>>
    /\ DatesFrame

\* GitHub, sync: return { events, checkpoint: { last_sync_at: now } }
GitHubSyncReturn ==
    /\ connector = "github" /\ pc = "items"
    /\ loc.i > Len(source.items)
    /\ result' = [last_sync_at |-> "now"]
    /\ pc' = "returned"
    /\ UNCHANGED <<loc, events>>
    /\ DatesFrame

DatesInit ==
    /\ connector \in {"ios", "gplay", "github"}
    /\ source \in {[items |-> d] : d \in RawDates}
    /\ config = Null
    /\ checkpoint = Null
    /\ pc = IF connector = "github" THEN "items" ELSE "transform"
    /\ loc = [i |-> 1]
    /\ events = <<>>
    /\ fetches = 0
    /\ consumed = 0
    /\ raw = {}
    /\ exhausted = FALSE
    /\ calls = <<>>
    /\ result = Null
    /\ emittedBefore = {}
    /\ enrichedBefore = {}

DatesNext ==
    ReviewsTransform \/ ReviewsCheckpoint \/ GitHubIssueStep \/ GitHubSyncReturn

DatesSpec == DatesInit /\ [][DatesNext]_vars

(***************************************************************************)
(* Comments and their parents (Reddit and Hacker News connectors,          *)
(* HackerNewsCrawler).                                                     *)
(*                                                                         *)
(* A run has fetched the comments source.comments; comment i has the id i. *)
(* A Reddit comment carries parent_id, a fullname, of which the model      *)
(* keeps the prefix and the id.  A Hacker News hit carries parent_id and   *)
(* story_id, both optional: 0 stands for a field that is absent (the ids   *)
(* of the site start at 1).                                                *)
(***************************************************************************)

\* the comments of one run
MaxComments == 2

\* the ids a parent field may name: those of the fetched comments and one more
ParentIds == 1..(MaxComments + 1)

RedditComments == [prefix : {"t1_", "t3_", "t5_"}, id : ParentIds] \cup {[prefix |-> "", id |-> 0]}

AlgoliaComments == [parent_id : {0} \cup ParentIds, story_id : {0} \cup ParentIds]

\* RedditConnector.transformComment: external_id and parent_external_id
RedditTransformComment(n, comment) ==
    [external_id |-> [kind |-> "reddit_comment", id |-> n],
     parent_external_id |->
        IF comment.prefix = "t1_" THEN [kind |-> "reddit_comment", id |-> comment.id]
        ELSE IF comment.prefix = "t3_" THEN [kind |-> "reddit_post", id |-> comment.id]
        ELSE Null]

\* faulty variant: only a parent that is another comment is linked
HNParentOf_CommentsOnly(hit) ==
    IF hit.parent_id # 0 /\ hit.story_id # 0 /\ hit.parent_id # hit.story_id
    THEN [kind |-> "hn_comment", id |-> hit.parent_id]
    ELSE Null

\* the parent of a hit: HackerNewsConnector.transformComment (parentExternalId)
\* and HackerNewsCrawler.getParentId
HNParentOf(hit) ==
    IF hit.parent_id # 0 /\ hit.story_id # 0 /\ hit.parent_id # hit.story_id
    THEN [kind |-> "hn_comment", id |-> hit.parent_id]
    ELSE IF hit.story_id # 0 THEN [kind |-> "hn_story", id |-> hit.story_id]
    ELSE Null

\* HackerNewsConnector.transformComment: external_id and parent_external_id
HNTransformComment(n, hit) ==
    [external_id |-> [kind |-> "hn_comment", id |-> n],
     parent_external_id |-> HNParentOf(hit)]

ParentsFrame ==
    UNCHANGED <<connector, source, config, checkpoint, fetches, consumed, raw,
                exhausted, calls, result, emittedBefore, enrichedBefore>>

\* one turn of the loop over the fetched comments:
\* events.push(this.transformComment(comment))
CommentStep ==
    /\ connector \in {"reddit", "hn"} /\ pc = "comments"
    /\ loc.i <= Len(source.comments)
    /\ events' = Append(events,
                        IF connector = "reddit"
                        THEN RedditTransformComment(loc.i, source.comments[loc.i])
                        ELSE HNTransformComment(loc.i, source.comments[loc.i]))
    /\ loc' = [loc EXCEPT !.i = @ + 1]
    /\ UNCHANGED pc
    /\ ParentsFrame

\* the loop is over
CommentsDone ==
    /\ connector \in {"reddit", "hn"} /\ pc = "comments"
    /\ loc.i > Len(source.comments)
    /\ pc' = "returned"
    /\ UNCHANGED <<loc, events>>
    /\ ParentsFrame

ParentsInit ==
    /\ connector \in {"reddit", "hn"}
    /\ source \in {[comments |-> c] :
                      c \in SeqsUpTo(IF connector = "reddit" THEN RedditComments
                                     ELSE AlgoliaComments, MaxComments)}
    /\ config = Null
    /\ checkpoint = Null
    /\ pc = "comments"
    /\ loc = [i |-> 1]
    /\ events = <<>>
    /\ fetches = 0
    /\ consumed = 0
    /\ raw = {}
    /\ exhausted = FALSE
    /\ calls = <<>>
    /\ result = Null
    /\ emittedBefore = {}
    /\ enrichedBefore = {}

ParentsNext == CommentStep \/ CommentsDone

ParentsSpec == ParentsInit /\ [][ParentsNext]_vars

(***************************************************************************)
(* XCrawler.pull: what the authentication writes to the log.               *)
(*                                                                         *)
(* Two runs of pull are followed side by side.  They have the same public  *)
(* course loc.pub (which credentials are configured, how the site answers) *)
(* and each its own secret values loc.secret[r]: X_COOKIES, X_PASSWORD,    *)
(* X_2FA_SECRET and the session cookies the site issues on login.  Every   *)
(* step is taken by both runs; loc.log[r] is what run r has logged.        *)
(***************************************************************************)

LogRuns == {1, 2}

XSecrets ==
    [X_COOKIES : {"cookies A", "cookies B"}, X_PASSWORD : {"password A", "password B"},
     X_2FA_SECRET : {"totp A", "totp B"}, session : {"session A", "session B"}]

\* the public course of a run: the credentials configured, the answer to the
\* cookies ("ok", "expired": isLoggedIn is false, "malformed": JSON.parse
\* throws), whether the error text of JSON.parse quotes its input, whether
\* login and getCookies succeed
XCourses ==
    [hasCookies : BOOLEAN, hasLogin : BOOLEAN, has2FA : BOOLEAN,
     cookies : {"ok", "expired", "malformed"}, quotesInput : BOOLEAN,
     loginOk : BOOLEAN, exportOk : BOOLEAN]

\* logger.info({hasCookies, ...}, 'X crawler credential check')
XCredentialCheckEntry(pub) ==
    [msg |-> "X crawler credential check",
     data |-> <<pub.hasCookies, pub.hasLogin, pub.has2FA>>]

\* a log line without data
XLogLine(text) == [msg |-> text, data |-> <<>>]

\* `Cookie auth failed: ${cookieError}, falling back to login`
XCookieErrorEntry(pub, secret) ==
    [msg |-> "Cookie auth failed",
     data |-> IF pub.cookies = "expired" THEN <<"Cookies are invalid or expired">>
              ELSE IF pub.quotesInput THEN <<"is not valid JSON", secret.X_COOKIES>>
              ELSE <<"Unexpected token in JSON">>]

\* logger.info(JSON.stringify(newCookies))
XCookieExportEntry(secret) == [msg |-> "cookies", data |-> <<secret.session>>]

XLogFrame ==
    UNCHANGED <<connector, source, config, checkpoint, events, fetches, consumed,
                raw, exhausted, calls, result, emittedBefore, enrichedBefore>>

\* every run appends its entries
XLogged(entries(_)) ==
    [loc EXCEPT !.log = [r \in LogRuns |-> loc.log[r] \o entries(r)]]

\* the credential check and its log entry
XCrawlerCredentialCheck ==
    /\ connector = "xCrawler" /\ pc = "check"
    /\ LET e(r) == <<XCredentialCheckEntry(loc.pub)>> IN loc' = XLogged(e)
    /\ pc' = IF ~loc.pub.hasCookies /\ ~loc.pub.hasLogin THEN "failed"
             ELSE IF loc.pub.hasCookies THEN "cookies" ELSE "login"
    /\ XLogFrame

\* if (cookies): setCookies, isLoggedIn; on an error the fall back to login
XCrawlerCookieAuth ==
    /\ connector = "xCrawler" /\ pc = "cookies"
    /\ IF loc.pub.cookies = "ok"
       THEN /\ LET e(r) == <<XLogLine("Using cookie-based authentication"),
                             XLogLine("Cookie authentication successful")>>
               IN loc' = XLogged(e)
            /\ pc' = "authenticated"
       ELSE /\ LET e(r) == <<XLogLine("Using cookie-based authentication"),
                             XCookieErrorEntry(loc.pub, loc.secret[r])>>
               IN loc' = XLogged(e)
            /\ pc' = IF ~loc.pub.hasLogin \/ ~loc.pub.loginOk THEN "failed"
                     ELSE "authenticated"
    /\ XLogFrame

\* else: scraper.login, then the export of the cookies of the new session
XCrawlerLogin ==
    /\ connector = "xCrawler" /\ pc = "login"
    /\ IF ~loc.pub.loginOk
       THEN /\ LET e(r) == <<XLogLine("Using username/password authentication")>>
               IN loc' = XLogged(e)
            /\ pc' = "failed"
       ELSE /\ LET e(r) == IF loc.pub.exportOk
                           THEN <<XLogLine("Using username/password authentication"),
                                  XLogLine("Login successful"),
                                  XCookieExportEntry(loc.secret[r])>>
                           ELSE <<XLogLine("Using username/password authentication"),
                                  XLogLine("Could not export cookies for future use")>>
               IN loc' = XLogged(e)
            /\ pc' = "authenticated"
    /\ XLogFrame

XLogInit ==
    /\ connector = "xCrawler"
    /\ source = Null
    /\ config = Null
    /\ checkpoint = Null
    /\ pc = "check"
    /\ \E pub \in XCourses, s1, s2 \in XSecrets :
          loc = [pub |-> pub, secret |-> [r \in LogRuns |-> IF r = 1 THEN s1 ELSE s2],
                 log |-> [r \in LogRuns |-> <<>>]]
    /\ events = <<>>
    /\ fetches = 0
    /\ consumed = 0
    /\ raw = {}
    /\ exhausted = FALSE
    /\ calls = <<>>
    /\ result = Null
    /\ emittedBefore = {}
    /\ enrichedBefore = {}

XLogNext == XCrawlerCredentialCheck \/ XCrawlerCookieAuth \/ XCrawlerLogin

XLogSpec == XLogInit /\ [][XLogNext]_vars

(***************************************************************************)
(* XCrawler.pull: the thread loop, the mid-run flush and the result.       *)
(*                                                                         *)
(* The primary search has seen source.seen tweet ids, source.valid of them *)
(* with an id and a text; these became the contents 1..source.valid,       *)
(* numbered by rank, and all of them qualify for thread collection.  Every *)
(* conversation fetched yields source.replies reply contents; the          *)
(* conversation search of root source.failAt throws (0: none does).        *)
(***************************************************************************)

\* the tweets one search yields
MaxRoots == 41

\* max_threads_to_fetch when the options give none
XCrawlerMaxThreads == 100

\* threadsFetched % 20
XFlushEvery == 20

XPullSources ==
    {[seen |-> v + d, valid |-> v, replies |-> p, failAt |-> f] :
        v \in 0..MaxRoots, d \in 0..1, p \in 0..1, f \in {0, 1, XFlushEvery, MaxRoots}}

\* candidateTweets.sort(...).slice(0, maxThreads), as the ranks of the roots
XCrawlerTweetsForThreads(src) ==
    1..(IF src.valid < XCrawlerMaxThreads THEN src.valid ELSE XCrawlerMaxThreads)

\* faulty variant: a flush after every thread
XFlushDue_EveryThread(threadsFetched, fn) == fn

\* if (threadsFetched % 20 === 0 && _updateCheckpointFn)
XFlushDue(threadsFetched, fn) == threadsFetched % XFlushEvery = 0 /\ fn

XPullFrame ==
    UNCHANGED <<connector, source, config, checkpoint, events, fetches, consumed,
                raw, exhausted, emittedBefore, enrichedBefore>>

\* a root tweet whose thread an earlier run processed: continue
XCrawlerThreadSkip ==
    /\ connector = "xCrawler" /\ pc = "threads"
    /\ loc.i \in XCrawlerTweetsForThreads(source)
    /\ loc.i \in loc.processedThreadIds
    /\ loc' = [loc EXCEPT !.i = @ + 1]
    /\ UNCHANGED <<pc, calls, result>>
    /\ XPullFrame

\* the conversation of the root is fetched: its replies join the contents, the
\* root is marked as processed, and every 20th time the checkpoint in progress
\* is handed to updateCheckpointFn (whose rejection the catch below absorbs)
XCrawlerThreadFetched ==
    /\ connector = "xCrawler" /\ pc = "threads"
    /\ loc.i \in XCrawlerTweetsForThreads(source)
    /\ loc.i \notin loc.processedThreadIds
    /\ loc.i # source.failAt
    /\ calls' = Append(calls, [id |-> loc.i, ok |-> TRUE])
    /\ LET processed == loc.processedThreadIds \cup {loc.i}
           fetched == loc.threadsFetched + 1
       IN loc' = [loc EXCEPT
                    !.i = @ + 1,
                    !.contents = @ + source.replies,
                    !.processedThreadIds = processed,
                    !.threadsFetched = fetched,
                    !.flushes =
                        IF XFlushDue(fetched, config.updateCheckpointFn)
                        THEN Append(@, [processed_thread_ids |-> processed,
                                        calls |-> Len(calls')])
                        ELSE @]
    /\ UNCHANGED <<pc, result>>
    /\ XPullFrame

\* the conversation search throws: logged, the loop goes on
XCrawlerThreadFails ==
    /\ connector = "xCrawler" /\ pc = "threads"
    /\ loc.i \in XCrawlerTweetsForThreads(source)
    /\ loc.i \notin loc.processedThreadIds
    /\ loc.i = source.failAt
    /\ calls' = Append(calls, [id |-> loc.i, ok |-> FALSE])
    /\ loc' = [loc EXCEPT !.i = @ + 1]
    /\ UNCHANGED <<pc, result>>
    /\ XPullFrame

\* the loop is over: the checkpoint and the metadata of the result
XCrawlerReturn ==
    /\ connector = "xCrawler" /\ pc = "threads"
    /\ loc.i \notin XCrawlerTweetsForThreads(source)
    /\ result' = [contents |-> loc.contents,
                  processed_thread_ids |->
                      IF loc.contents > 0 THEN loc.processedThreadIds
                      ELSE XProcessed(checkpoint),
                  items_found |-> loc.contents,
                  items_skipped |-> source.seen - loc.contents]
    /\ pc' = "returned"
    /\ UNCHANGED <<loc, calls>>
    /\ XPullFrame

XPullInit ==
    /\ connector = "xCrawler"
    /\ source \in XPullSources
    /\ config \in {[updateCheckpointFn |-> b] : b \in BOOLEAN}
    /\ checkpoint \in {Null} \cup
          {[last_timestamp |-> 1, last_tweet_id |-> 0, processed_thread_ids |-> p] :
              p \in {{1}, {MaxRoots + 1}}}
    /\ pc = "threads"
    /\ loc = [i |-> 1, contents |-> source.valid,
              processedThreadIds |-> XProcessed(checkpoint),
              threadsFetched |-> 0, flushes |-> <<>>]
    /\ events = <<>>
    /\ fetches = 0
    /\ consumed = 0
    /\ raw = {}
    /\ exhausted = FALSE
    /\ calls = <<>>
    /\ result = Null
    /\ emittedBefore = {}
    /\ enrichedBefore = {}

XPullNext ==
    XCrawlerThreadSkip \/ XCrawlerThreadFetched \/ XCrawlerThreadFails
       \/ XCrawlerReturn

XPullSpec == XPullInit /\ [][XPullNext]_vars

(***************************************************************************)
(* GitHubCrawler.handleHttpError: the error raised for a failed request.   *)
(* source is the response and the clock: its status, the two rate-limit    *)
(* headers, and Date.now() in milliseconds.                                *)
(***************************************************************************)

\* the largest x-ratelimit-reset, in seconds
MaxReset == 3

\* the clock runs from 0 in half seconds
MaxNowSteps == 6

\* the values of a JavaScript expression that the handler computes
JsUndefined == [t |-> "undefined", v |-> 0]

JsNaN == [t |-> "nan", v |-> 0]

JsNum(n) == [t |-> "num", v |-> n]

\* undefined, NaN and 0 are falsy
JsTruthy(x) == x.t = "num" /\ x.v # 0

\* the statuses the switch names
GitHubHttpStatuses == {401, 403, 404, 422}

\* headers.get('x-ratelimit-remaining'): absent, or its text
GitHubRemainingHeaders ==
    {[present |-> FALSE, text |-> ""], [present |-> TRUE, text |-> "0"],
     [present |-> TRUE, text |-> "1"]}

\* headers.get('x-ratelimit-reset'): absent, empty, not a number, or seconds
GitHubResetHeaders ==
    {[kind |-> k, n |-> 0] : k \in {"missing", "empty", "text"}}
       \cup {[kind |-> "num", n |-> n] : n \in 0..MaxReset}

\* resetAt ? Number(resetAt) * 1000 - Date.now() : undefined
GitHubRetryAfterMs(resetAt, now) ==
    IF resetAt.kind \in {"missing", "empty"} THEN JsUndefined
    ELSE IF resetAt.kind = "text" THEN JsNaN
    ELSE JsNum(resetAt.n * 1000 - now)

\* faulty variant: the computed delay is passed on as it is
GitHubRetryAfterArg_Unchecked(retryAfterMs) == retryAfterMs

\* retryAfterMs && retryAfterMs > 0 ? retryAfterMs : undefined
GitHubRetryAfterArg(retryAfterMs) ==
    IF JsTruthy(retryAfterMs) /\ retryAfterMs.v > 0 THEN retryAfterMs ELSE JsUndefined

\* the error handleHttpError throws
GitHubHttpError(response, now) ==
    CASE response.status = 401 -> [kind |-> "Error", retryAfterMs |-> JsUndefined]
      [] response.status = 403 ->
            IF response.remaining.present /\ response.remaining.text = "0"
            THEN [kind |-> "RateLimitError",
                  retryAfterMs |->
                      GitHubRetryAfterArg(GitHubRetryAfterMs(response.reset, now))]
            ELSE [kind |-> "Error", retryAfterMs |-> JsUndefined]
      [] OTHER -> [kind |-> "Error", retryAfterMs |-> JsUndefined]

\* handleHttpError(error, url)
GitHubCrawlerHandleHttpError ==
    /\ connector = "githubHttp" /\ pc = "call"
    /\ result' = GitHubHttpError(source, source.now)
    /\ pc' = "thrown"
    /\ UNCHANGED <<connector, source, config, checkpoint, loc, events, fetches,
                   consumed, raw, exhausted, calls, emittedBefore, enrichedBefore>>

HttpErrorInit ==
    /\ connector = "githubHttp"
    /\ source \in {[status |-> s, remaining |-> r, reset |-> t, now |-> k * 500] :
                      s \in GitHubHttpStatuses, r \in GitHubRemainingHeaders,
                      t \in GitHubResetHeaders, k \in 0..MaxNowSteps}
    /\ config = Null
    /\ checkpoint = Null
    /\ pc = "call"
    /\ loc = Null
    /\ events = <<>>
    /\ fetches = 0
    /\ consumed = 0
    /\ raw = {}
    /\ exhausted = FALSE
    /\ calls = <<>>
    /\ result = Null
    /\ emittedBefore = {}
    /\ enrichedBefore = {}

HttpErrorNext == GitHubCrawlerHandleHttpError

HttpErrorSpec == HttpErrorInit /\ [][HttpErrorNext]_vars

(***************************************************************************)
(* Google Play runs against a feed that receives a new review.             *)
(***************************************************************************)

\* the date of the new review: later than every date a checkpoint can hold
FreshTs == MaxTs + 1

\* a user publishes a review between two runs: the site lists it first
GPlayPublish ==
    /\ connector = "gplay" /\ pc = "returned"
    /\ ~source.deep
    /\ Len(source.feed) > 0 /\ source.feed[1] # FreshTs
    /\ source' = [source EXCEPT !.feed = <<FreshTs>> \o @]
    /\ UNCHANGED <<connector, config, checkpoint, pc, loc, events, fetches,
                   consumed, raw, exhausted, calls, result, emittedBefore,
                   enrichedBefore>>

GPlayFeedInit == InitOf({"gplay"})

\* the steps of the runs whose requests are all answered
GPlayRuns == GPlayFetchPage \/ GPlayLoopExit \/ GPlayReturn \/ NextRun

GPlayFeedNext == GPlayRuns \/ GPlayPublish

\* every request is answered in the end, and the host goes on scheduling runs
GPlayFeedSpec == GPlayFeedInit /\ [][GPlayFeedNext]_vars /\ WF_vars(GPlayRuns)

(***************************************************************************)
(* GitHub connector, sync of issues, run after run against a repository    *)
(* whose issues are updated meanwhile.  source.updated is updated_at of    *)
(* each issue, loc.now the clock; emittedBefore collects the events of the *)
(* earlier runs, each with the updated_at it carried.                      *)
(***************************************************************************)

\* issues of the repository
MaxIssues == 3

\* per_page of the one request (100 in the source, scaled with the issues)
GitHubPerPage == 2

\* instants of the clock; no issue is updated at the last one
MaxClock == 4

Issues == 1..MaxIssues

\* resolveSince: last_sync_at of the checkpoint, else the lookback (instant 0)
GitHubResolveSince(cp) == IF cp # Null /\ cp.last_sync_at # 0 THEN cp.last_sync_at ELSE 0

\* GET /issues?per_page&sort=updated&direction=desc&since: the responses the
\* API may give, the most recently updated issues first and at most
\* per_page of them
GitHubIssuePages(updated, since, perPage) ==
    LET matching == {i \in Issues : updated[i] >= since}
        n == IF Cardinality(matching) > perPage THEN perPage
             ELSE Cardinality(matching)
    IN {S \in SUBSET matching :
           /\ Cardinality(S) = n
           /\ \A i \in S : \A j \in matching \ S : updated[i] >= updated[j]}

GitHubSyncFrame ==
    UNCHANGED <<connector, config, fetches, consumed, raw, exhausted, calls,
                enrichedBefore>>

\* syncIssuesAndPulls: the one request, and the events made of its items
GitHubConnectorRequest ==
    /\ connector = "github" /\ pc = "request"
    /\ \E S \in GitHubIssuePages(source.updated, GitHubResolveSince(checkpoint),
                                   GitHubPerPage) :
          events' = {[external_id |-> i, updated_at |-> source.updated[i]] : i \in S}
    /\ pc' = "stamp"
    /\ UNCHANGED <<source, checkpoint, loc, result, emittedBefore>>
    /\ GitHubSyncFrame

\* sync returns: last_sync_at is the time of the return
GitHubConnectorReturn ==
    /\ connector = "github" /\ pc = "stamp"
    /\ result' = [last_sync_at |-> loc.now]
    /\ pc' = "returned"
    /\ UNCHANGED <<source, checkpoint, loc, events, emittedBefore>>
    /\ GitHubSyncFrame

\* the next scheduled sync, with the checkpoint the last one returned
GitHubConnectorNextSync ==
    /\ connector = "github" /\ pc = "returned"
    /\ checkpoint' = result
    /\ emittedBefore' = emittedBefore \cup events
    /\ events' = {}
    /\ result' = Null
    /\ pc' = "request"
    /\ UNCHANGED <<source, loc>>
    /\ GitHubSyncFrame

\* somebody edits an issue: GitHub sets its updated_at
GitHubIssueUpdated ==
    /\ connector = "github"
    /\ \E i \in Issues :
          /\ source.updated[i] < loc.now /\ loc.now < MaxClock
          /\ source' = [source EXCEPT !.updated[i] = loc.now]
    /\ UNCHANGED <<checkpoint, pc, loc, events, result, emittedBefore>>
    /\ GitHubSyncFrame

\* time passes
GitHubClockTick ==
    /\ connector = "github"
    /\ loc.now < MaxClock
    /\ loc' = [loc EXCEPT !.now = @ + 1]
    /\ UNCHANGED <<source, checkpoint, pc, events, result, emittedBefore>>
    /\ GitHubSyncFrame

GitHubSyncInit ==
    /\ connector = "github"
    /\ source = [updated |-> [i \in Issues |-> 1]]
    /\ config = Null
    /\ checkpoint = Null
    /\ pc = "request"
    /\ loc = [now |-> 1]
    /\ events = {}
    /\ fetches = 0
    /\ consumed = 0
    /\ raw = {}
    /\ exhausted = FALSE
    /\ calls = <<>>
    /\ result = Null
    /\ emittedBefore = {}
    /\ enrichedBefore = {}

\* the steps of the runs
GitHubSyncRuns ==
    GitHubConnectorRequest \/ GitHubConnectorReturn \/ GitHubConnectorNextSync

GitHubSyncNext == GitHubSyncRuns \/ GitHubIssueUpdated \/ GitHubClockTick

\* every request is answered in the end, and the host goes on scheduling syncs
GitHubSyncSpec ==
    GitHubSyncInit /\ [][GitHubSyncNext]_vars /\ WF_vars(GitHubSyncRuns)

(***************************************************************************)
(* RedditCrawler.getAccessToken, called concurrently on one instance.      *)
(*                                                                         *)
(* The code between two awaits runs without interruption, so a call is one *)
(* step up to its first await.  Refreshes are numbered from 1; the token a *)
(* refresh obtains carries its number, and a refresh that fails yields     *)
(* TokenNull.  loc holds the instance fields (accessToken, tokenValid for  *)
(* Date.now() < tokenExpiresAt - 300000, tokenRefreshPromise), the         *)
(* requests in flight and their outcomes, and each caller's position.      *)
(***************************************************************************)

\* concurrent callers
MaxCallers == 3

\* refreshes one behaviour may start
MaxRefreshes == 2

TokenCallers == 1..MaxCallers

\* the result null; 0 stands for a promise not settled yet
TokenNull == 0 - 1

\* faulty variant: a call never joins the refresh in flight
TokenJoins_Never(tokenRefreshPromise) == FALSE

\* if (this.tokenRefreshPromise) return this.tokenRefreshPromise
TokenJoins(tokenRefreshPromise) == tokenRefreshPromise # 0

\* if (this.accessToken && Date.now() < this.tokenExpiresAt - 300000)
TokenCached(accessToken, tokenValid) == accessToken # 0 /\ tokenValid

TokenFrame ==
    UNCHANGED <<connector, source, config, checkpoint, pc, events, fetches,
                consumed, raw, exhausted, calls, result, emittedBefore,
                enrichedBefore>>

\* getAccessToken up to its first await; refreshToken runs up to its request
RedditGetAccessToken(c) ==
    /\ connector = "redditToken"
    /\ loc.at[c] = "idle"
    /\ LET during == IF loc.inflight = {} THEN 0
                     ELSE CHOOSE n \in loc.inflight : TRUE
       IN IF TokenCached(loc.accessToken, loc.tokenValid)
          THEN loc' = [loc EXCEPT !.at[c] = "done", !.during[c] = during,
                                  !.got[c] = loc.accessToken]
          ELSE IF TokenJoins(loc.tokenRefreshPromise)
          THEN loc' = [loc EXCEPT !.at[c] = "joined", !.during[c] = during,
                                  !.waits[c] = loc.tokenRefreshPromise]
          ELSE /\ loc.started < MaxRefreshes
               /\ loc' = [loc EXCEPT !.at[c] = "awaiting", !.during[c] = during,
                                     !.waits[c] = loc.started + 1,
                                     !.started = @ + 1,
                                     !.tokenRefreshPromise = loc.started + 1,
                                     !.inflight = @ \cup {loc.started + 1}]
    /\ TokenFrame

\* refreshToken after its request: the token is stored, the promise resolves;
\* expires_in may be shorter than the five minutes of margin
RedditRefreshTokenOk(n) ==
    /\ connector = "redditToken"
    /\ n \in loc.inflight
    /\ \E valid \in BOOLEAN :
          loc' = [loc EXCEPT !.inflight = @ \ {n}, !.outcome[n] = n,
                             !.accessToken = n, !.tokenValid = valid]
    /\ TokenFrame

\* refreshToken, the catch: the promise resolves with null
RedditRefreshTokenFails(n) ==
    /\ connector = "redditToken"
    /\ n \in loc.inflight
    /\ loc' = [loc EXCEPT !.inflight = @ \ {n}, !.outcome[n] = TokenNull]
    /\ TokenFrame

\* the caller that started the refresh resumes: finally clears the promise
RedditGetAccessTokenResumes(c) ==
    /\ connector = "redditToken"
    /\ loc.at[c] = "awaiting"
    /\ loc.outcome[loc.waits[c]] # 0
    /\ loc' = [loc EXCEPT !.at[c] = "done", !.got[c] = loc.outcome[loc.waits[c]],
                          !.tokenRefreshPromise = 0]
    /\ TokenFrame

\* a caller that was handed the promise of a refresh receives its value
RedditTokenPromiseSettles(c) ==
    /\ connector = "redditToken"
    /\ loc.at[c] = "joined"
    /\ loc.outcome[loc.waits[c]] # 0
    /\ loc' = [loc EXCEPT !.at[c] = "done", !.got[c] = loc.outcome[loc.waits[c]]]
    /\ TokenFrame

\* the caller comes back for another token
RedditTokenCallerReturns(c) ==
    /\ connector = "redditToken"
    /\ loc.at[c] = "done"
    /\ loc' = [loc EXCEPT !.at[c] = "idle", !.during[c] = 0, !.waits[c] = 0,
                          !.got[c] = 0]
    /\ TokenFrame

\* time passes: the cached token comes within five minutes of its expiry
RedditTokenExpires ==
    /\ connector = "redditToken"
    /\ loc.tokenValid
    /\ loc' = [loc EXCEPT !.tokenValid = FALSE]
    /\ TokenFrame

TokenInit ==
    /\ connector = "redditToken"
    /\ source = Null
    /\ config = Null
    /\ checkpoint = Null
    /\ pc = "calls"
    /\ loc = [at |-> [c \in TokenCallers |-> "idle"],
              during |-> [c \in TokenCallers |-> 0],
              waits |-> [c \in TokenCallers |-> 0],
              got |-> [c \in TokenCallers |-> 0],
              accessToken |-> 0, tokenValid |-> FALSE,
              tokenRefreshPromise |-> 0, inflight |-> {}, started |-> 0,
              outcome |-> [n \in 1..MaxRefreshes |-> 0]]
    /\ events = <<>>
    /\ fetches = 0
    /\ consumed = 0
    /\ raw = {}
    /\ exhausted = FALSE
    /\ calls = <<>>
    /\ result = Null
    /\ emittedBefore = {}
    /\ enrichedBefore = {}

TokenNext ==
    \/ \E c \in TokenCallers :
          \/ RedditGetAccessToken(c)
          \/ RedditGetAccessTokenResumes(c)
          \/ RedditTokenPromiseSettles(c)
          \/ RedditTokenCallerReturns(c)
    \/ \E n \in 1..MaxRefreshes : RedditRefreshTokenOk(n) \/ RedditRefreshTokenFails(n)
    \/ RedditTokenExpires

TokenSpec == TokenInit /\ [][TokenNext]_vars

(***************************************************************************)
(* HackerNewsCrawler.pull with story_ids: pullSpecificStories, pull after  *)
(* pull, each with the checkpoint of the one before.                       *)
(***************************************************************************)

\* distinct stories, ids asked for in one pull, pulls of one chain
MaxStory == 2

MaxStoryIds == 2

MaxPulls == 3

\* options.story_ids: a list that is not empty and names no story twice
HNStoryIdLists ==
    {l \in SeqsUpTo(1..MaxStory, MaxStoryIds) :
        Len(l) > 0 /\ Cardinality(Range(l)) = Len(l)}

\* checkpoint?.processed_story_ids || []
HNProcessedStoryIds(cp) == IF cp = Null THEN <<>> ELSE cp.processed_story_ids

\* newCheckpoint of pullSpecificStories
HNSpecificCheckpoint(cp, storyIds, contents) ==
    [total_items_processed |->
         (IF cp = Null THEN 0 ELSE cp.total_items_processed) + Len(contents),
     processed_story_ids |-> HNProcessedStoryIds(cp) \o storyIds]

HNStoriesFrame ==
    UNCHANGED <<connector, source, fetches, consumed, raw, exhausted, calls,
                emittedBefore, enrichedBefore>>

\* the item request of the next id is answered: the story joins contents
HNStoryFetched ==
    /\ connector = "hnStories" /\ pc = "stories"
    /\ loc.i <= Len(config.story_ids)
    /\ events' = Append(events, config.story_ids[loc.i])
    /\ loc' = [loc EXCEPT !.i = @ + 1]
    /\ UNCHANGED <<config, checkpoint, pc, result>>
    /\ HNStoriesFrame

\* the item request of the next id throws: logged, the loop goes on
HNStoryFetchFails ==
    /\ connector = "hnStories" /\ pc = "stories"
    /\ loc.i <= Len(config.story_ids)
    /\ loc' = [loc EXCEPT !.i = @ + 1]
    /\ UNCHANGED <<config, checkpoint, pc, events, result>>
    /\ HNStoriesFrame

\* the loop is over: the checkpoint is built and returned
HNPullSpecificStoriesReturn ==
    /\ connector = "hnStories" /\ pc = "stories"
    /\ loc.i > Len(config.story_ids)
    /\ result' = HNSpecificCheckpoint(checkpoint, config.story_ids, events)
    /\ pc' = "returned"
    /\ UNCHANGED <<config, checkpoint, loc, events>>
    /\ HNStoriesFrame

\* the next pull, with the checkpoint the last one returned
HNStoriesNextPull ==
    /\ connector = "hnStories" /\ pc = "returned"
    /\ loc.pulls < MaxPulls
    /\ config' \in {[story_ids |-> l] : l \in HNStoryIdLists}
    /\ checkpoint' = result
    /\ result' = Null
    /\ events' = <<>>
    /\ loc' = [i |-> 1, pulls |-> loc.pulls + 1]
    /\ pc' = "stories"
    /\ HNStoriesFrame

HNStoriesInit ==
    /\ connector = "hnStories"
    /\ source = Null
    /\ config \in {[story_ids |-> l] : l \in HNStoryIdLists}
    /\ checkpoint = Null
    /\ pc = "stories"
    /\ loc = [i |-> 1, pulls |-> 1]
    /\ events = <<>>
    /\ fetches = 0
    /\ consumed = 0
    /\ raw = {}
    /\ exhausted = FALSE
    /\ calls = <<>>
    /\ result = Null
    /\ emittedBefore = {}
    /\ enrichedBefore = {}

HNStoriesNext ==
    HNStoryFetched \/ HNStoryFetchFails \/ HNPullSpecificStoriesReturn
       \/ HNStoriesNextPull

HNStoriesSpec == HNStoriesInit /\ [][HNStoriesNext]_vars

(***************************************************************************)
(* X connector, sync: the credential check and the authentication that     *)
(* precede the primary search.  config says which credentials are set;     *)
(* loc.cookie is how the cookie authentication ended, loc.login how the    *)
(* login call ended, loc.authenticated whether isLoggedIn answered true or *)
(* a login call returned.                                                  *)
(***************************************************************************)
XAuthConfigs ==
    {[X_COOKIES |-> c, X_USERNAME |-> u, X_PASSWORD |-> p, X_EMAIL |-> e,
      search_query |-> q] :
        c \in {"none", "malformed", "json"}, u \in BOOLEAN, p \in BOOLEAN,
        e \in BOOLEAN, q \in BOOLEAN}

\* username, password and email are all set
XHasLogin(cfg) == cfg.X_USERNAME /\ cfg.X_PASSWORD /\ cfg.X_EMAIL

\* if (!cookies && (!username || !password || !email)) throw
XCredentialsConfigured(cfg) == cfg.X_COOKIES # "none" \/ XHasLogin(cfg)

\* how the try around the cookie authentication may end
XCookieOutcomes(cfg) ==
    IF cfg.X_COOKIES = "malformed" THEN {"parse error"}
    ELSE {"setCookies throws", "isLoggedIn throws", "not logged in", "logged in"}

\* faulty variant: a failed cookie authentication is ignored
XAfterCookieError_Ignored(cfg) == "search"

\* the catch of the cookie authentication: throw, or fall back to login
XAfterCookieError(cfg) == IF XHasLogin(cfg) THEN "login" ELSE "failed"

XAuthFrame ==
    UNCHANGED <<connector, source, config, checkpoint, events, consumed, raw,
                exhausted, calls, result, emittedBefore, enrichedBefore>>

\* the credential check and the search_query check at the head of sync
XSyncCredentialCheck ==
    /\ connector = "xAuth" /\ pc = "start"
    /\ pc' = IF ~XCredentialsConfigured(config) THEN "failed"
             ELSE IF ~config.search_query THEN "failed"
             ELSE IF config.X_COOKIES # "none" THEN "cookies" ELSE "login"
    /\ UNCHANGED <<loc, fetches>>
    /\ XAuthFrame

\* if (cookies): JSON.parse, setCookies, isLoggedIn, and the catch
XSyncCookieAuth ==
    /\ connector = "xAuth" /\ pc = "cookies"
    /\ \E o \in XCookieOutcomes(config) :
          IF o = "logged in"
          THEN /\ loc' = [loc EXCEPT !.cookie = o, !.authenticated = TRUE]
               /\ pc' = "search"
          ELSE /\ loc' = [loc EXCEPT !.cookie = o]
               /\ pc' = XAfterCookieError(config)
    /\ UNCHANGED fetches
    /\ XAuthFrame

\* scraper.login returns
XSyncLogin ==
    /\ connector = "xAuth" /\ pc = "login"
    /\ loc' = [loc EXCEPT !.login = "returned", !.authenticated = TRUE]
    /\ pc' = "search"
    /\ UNCHANGED fetches
    /\ XAuthFrame

\* scraper.login throws: the outer catch rethrows
XSyncLoginFails ==
    /\ connector = "xAuth" /\ pc = "login"
    /\ loc' = [loc EXCEPT !.login = "threw"]
    /\ pc' = "failed"
    /\ UNCHANGED fetches
    /\ XAuthFrame

\* scraper.searchTweets(searchQuery, ...) is issued
XSyncSearchIssued ==
    /\ connector = "xAuth" /\ pc = "search"
    /\ fetches' = fetches + 1
    /\ pc' = "searched"
    /\ UNCHANGED loc
    /\ XAuthFrame

XAuthInit ==
    /\ connector = "xAuth"
    /\ source = Null
    /\ config \in XAuthConfigs
    /\ checkpoint = Null
    /\ pc = "start"
    /\ loc = [cookie |-> "none", login |-> "none", authenticated |-> FALSE]
    /\ events = <<>>
    /\ fetches = 0
    /\ consumed = 0
    /\ raw = {}
    /\ exhausted = FALSE
    /\ calls = <<>>
    /\ result = Null
    /\ emittedBefore = {}
    /\ enrichedBefore = {}

XAuthNext ==
    XSyncCredentialCheck \/ XSyncCookieAuth \/ XSyncLogin \/ XSyncLoginFails
       \/ XSyncSearchIssued

XAuthSpec == XAuthInit /\ [][XAuthNext]_vars

(***************************************************************************)
(* GitHub connector, execute.  source is the call: its action key, whether *)
(* the input names a repository, whether it holds what the action          *)
(* requires, and whether an OAuth token comes with it; config says whether *)
(* a repository and a token are configured.  result is the ActionResult.   *)
(***************************************************************************)
GitHubActionKeys ==
    {"create_issue", "add_issue_comment", "close_issue", "reopen_issue",
     "create_pull_request", "merge_pull_request"}

GitHubExecuteCalls ==
    {[actionKey |-> k, repo |-> r, required |-> i, accessToken |-> t] :
        k \in GitHubActionKeys \cup {"unknown"}, r \in BOOLEAN, i \in BOOLEAN,
        t \in BOOLEAN}

GitHubExecuteConfigs == {[repo |-> r, token |-> t] : r \in BOOLEAN, t \in BOOLEAN}

\* resolveRepo: the input's repository, else the config's, else it throws
GitHubRepoResolved(call, cfg) == call.repo \/ cfg.repo

\* resolveToken: the OAuth token, else the configured one, else null
GitHubTokenResolved(call, cfg) == call.accessToken \/ cfg.token

\* faulty variant: the error leaves execute
GitHubExecuteCatch_Rethrows(message) == [raised |-> TRUE, success |-> FALSE, error |-> message]

\* catch (error): return { success: false, error: message }
GitHubExecuteCatch(message) == [raised |-> FALSE, success |-> FALSE, error |-> message]

GitHubActionFailure(message) == [raised |-> FALSE, success |-> FALSE, error |-> message]

GitHubExecuteFrame ==
    UNCHANGED <<connector, source, config, checkpoint, loc, events, consumed,
                raw, exhausted, calls, emittedBefore, enrichedBefore>>

\* execute up to the request of the action: resolveRepo, resolveToken, the
\* switch and the check of the action's input
GitHubConnectorExecute ==
    /\ connector = "githubExecute" /\ pc = "start"
    /\ IF ~GitHubRepoResolved(source, config)
       THEN /\ result' = GitHubExecuteCatch("Repository is not configured")
            /\ pc' = "returned"
       ELSE IF ~GitHubTokenResolved(source, config)
       THEN /\ result' = GitHubActionFailure("GitHub action requires OAuth or GITHUB_TOKEN")
            /\ pc' = "returned"
       ELSE IF source.actionKey \notin GitHubActionKeys
       THEN /\ result' = GitHubActionFailure("Unknown action")
            /\ pc' = "returned"
       ELSE IF ~source.required
       THEN /\ result' = GitHubActionFailure("is required")
            /\ pc' = "returned"
       ELSE /\ result' = Null
            /\ pc' = "request"
    /\ UNCHANGED fetches
    /\ GitHubExecuteFrame

\* requestJson resolves: the action returns its output
GitHubActionRequestOk ==
    /\ connector = "githubExecute" /\ pc = "request"
    /\ fetches' = fetches + 1
    /\ result' = [raised |-> FALSE, success |-> TRUE, error |-> ""]
    /\ pc' = "returned"
    /\ GitHubExecuteFrame

\* requestJson throws (the response is not OK, or fetch rejects)
GitHubActionRequestFails ==
    /\ connector = "githubExecute" /\ pc = "request"
    /\ fetches' = fetches + 1
    /\ result' = GitHubExecuteCatch("GitHub API failed")
    /\ pc' = "returned"
    /\ GitHubExecuteFrame

GitHubExecuteInit ==
    /\ connector = "githubExecute"
    /\ source \in GitHubExecuteCalls
    /\ config \in GitHubExecuteConfigs
    /\ checkpoint = Null
    /\ pc = "start"
    /\ loc = Null
    /\ events = <<>>
    /\ fetches = 0
    /\ consumed = 0
    /\ raw = {}
    /\ exhausted = FALSE
    /\ calls = <<>>
    /\ result = Null
    /\ emittedBefore = {}
    /\ enrichedBefore = {}

GitHubExecuteNext ==
    GitHubConnectorExecute \/ GitHubActionRequestOk \/ GitHubActionRequestFails

GitHubExecuteSpec == GitHubExecuteInit /\ [][GitHubExecuteNext]_vars

(***************************************************************************)
(* Claims C1 to C5: the paginating connectors.                             *)
(***************************************************************************)

\* C1: a Reddit or Hacker News run that is given the checkpoint of the previous
\* run, against the same source, emits no event an earlier run of the chain
\* has emitted.
C1_NoReEmission ==
    connector \in {"reddit", "hn"} => Ids(events) \cap emittedBefore = {}

\* the current run has fetched a review at or before the checkpoint's time
C2_StopPageSeen ==
    /\ connector \in {"ios", "gplay"}
    /\ LastTimestamp(checkpoint) # 0
    /\ \E r \in raw : r.ts <= LastTimestamp(checkpoint)

\* C2: an iOS App Store or Google Play run with checkpoint time T, on a feed
\* sorted newest first, returns exactly the fetched reviews newer than T (so none
\* at or before T), and fetches no page after the one that showed a review at or
\* before T.
C2_EmitsExactlyNewer ==
    /\ [](connector \in {"ios", "gplay"} /\ pc = "returned"
              /\ LastTimestamp(checkpoint) # 0
            => Ids(events) = {r.id : r \in {q \in raw : q.ts > LastTimestamp(checkpoint)}})
    /\ [][C2_StopPageSeen /\ pc # "returned" => fetches' = fetches]_vars

C2_Witness ==
    /\ connector = "gplay" /\ pc = "returned"
    /\ C2_StopPageSeen
    /\ Len(events) > 0
    /\ fetches > 1

\* the last page fetched by the current run had no next cursor or no item
C3_LoopOver ==
    connector \in {"reddit", "hn", "ios"} /\ exhausted /\ pc # "returned"

\* C3: every run of the Reddit, Hacker News and iOS App Store sync ends (it
\* returns or throws); it never fetches more pages than its page cap; and once a
\* fetched page had no next cursor or no item, the run fetches no further page.
C3_BoundedPagination ==
    /\ [](/\ connector = "reddit" => fetches <= RedditMAX_PAGES
          /\ connector = "hn" => fetches <= HNMAX_PAGES
          /\ connector = "ios" => fetches <= IOSMAX_PAGES)
    /\ [][C3_LoopOver => fetches' = fetches]_vars
    /\ (connector \in {"reddit", "hn", "ios"} /\ pc \notin {"returned", "failed"})
          ~> (pc \in {"returned", "failed"})

\* a Hacker News run that was stopped by the page cap
C3_Witness ==
    connector = "hn" /\ pc = "returned" /\ fetches = HNMAX_PAGES /\ ~exhausted

\* the pages of raw items of a finite Reddit or Hacker News source
C4_Pages ==
    IF connector = "reddit" THEN [i \in 1..Len(source) |-> source[i].children]
    ELSE source.pages

\* a source of k >= 1 pages, all but the last with a next cursor, none of whose
\* items is filtered out or older than the cutoff
C4_Source ==
    /\ connector \in {"reddit", "hn"}
    /\ IF connector = "reddit"
       THEN /\ source[Len(source)].after = 0
            /\ \A i \in 1..Len(source) : \A j \in 1..Len(source[i].children) :
                  source[i].children[j] = "ok"
       ELSE source.nbPages >= 1 /\ source.nbPages = Len(source.pages)

\* the statement of C4 as it stands
C4_ConsumesAllPages ==
    C4_Source /\ pc = "returned"
      => fetches = Len(C4_Pages) /\ consumed = SumLen(C4_Pages)

\* C4 (amended): for a source of k pages (k at most the page cap) in which every
\* page but the last has a next cursor AND AT LEAST ONE ITEM, and no item is
\* filtered out or older than the cutoff, a Reddit or Hacker News run that
\* returns has performed exactly k page fetches and consumed every raw item.
C4_ConsumesAllNonEmptyPages ==
    /\ C4_Source /\ pc = "returned"
    /\ \A i \in 1..(Len(C4_Pages) - 1) : Len(C4_Pages[i]) > 0
    => fetches = Len(C4_Pages) /\ consumed = SumLen(C4_Pages)

C4_Witness ==
    /\ C4_Source /\ pc = "returned"
    /\ connector = "reddit"
    /\ Len(C4_Pages) = MaxSrcPages
    /\ Len(C4_Pages[1]) > 1 /\ Len(C4_Pages[MaxSrcPages]) > 0
    /\ fetches = MaxSrcPages

\* the first run of a Google Play chain returns, cut off by MAX_REVIEWS while the
\* feed has further pages, whose last review is older than the newest one
C5_Truncated ==
    /\ connector = "gplay" /\ pc = "returned"
    /\ checkpoint = Null
    /\ ~source.deep
    /\ Len(loc.allReviews) >= MAX_REVIEWS
    /\ loc.nextPaginationToken # 0
    /\ source.feed[Len(source.feed)] < source.feed[1]

C5_AllEmitted ==
    /\ connector = "gplay"
    /\ \A k \in 1..Len(source.feed) : k \in emittedBefore \cup Ids(events)

\* C5: after a Google Play run that MAX_REVIEWS cut off, the runs that follow,
\* each with the checkpoint of the one before, emit in the end every review of
\* the (unchanging) backlog, unless one of them fails.
C5_ForwardProgress == [](C5_Truncated => <>(C5_AllEmitted \/ pc = "failed"))

(***************************************************************************)
(* Claims C6 to C10: the enrichment passes.                                *)
(***************************************************************************)

\* C6: the events an X run returns hold each external_id at most once, the
\* replies added by the thread collection included.
C6_UniqueIds ==
    connector = "x" /\ pc = "returned" => Cardinality(Ids(events)) = Len(events)

\* the events of the primary search that qualify for thread collection
C7_Qualifying ==
    {i \in 1..Len(events) :
        events[i].kind = "tweet"
        /\ XQualifies(events[i], config.min_engagement_for_threads)}

C7_Fetched == {calls[i].id : i \in 1..Len(calls)}

\* nothing was processed before, and no conversation fetch of this run failed
C7_CleanRun ==
    /\ connector = "x" /\ pc = "returned"
    /\ XProcessed(checkpoint) = {}
    /\ \A i \in 1..Len(calls) : calls[i].ok

\* C7: with no thread processed before and no fetch failing, an X run with q
\* qualifying tweets and budget b performs exactly min(b, q) conversation
\* fetches, one per tweet, and no qualifying tweet left out has a higher score
\* than a fetched one.
C7_BudgetTopByScore ==
    C7_CleanRun =>
      /\ Len(calls) = IF Cardinality(C7_Qualifying) < config.max_threads_to_fetch
                      THEN Cardinality(C7_Qualifying)
                      ELSE config.max_threads_to_fetch
      /\ Cardinality(C7_Fetched) = Len(calls)
      /\ \A i \in C7_Qualifying :
            \/ events[i].external_id \in C7_Fetched
            \/ \A j \in C7_Qualifying :
                  events[j].external_id \in C7_Fetched => events[j].score >= events[i].score

\* more tweets qualify than the budget allows, of different scores
C7_Witness ==
    /\ C7_CleanRun
    /\ Cardinality(C7_Qualifying) > config.max_threads_to_fetch
    /\ Len(calls) = config.max_threads_to_fetch
    /\ \E i, j \in C7_Qualifying :
          /\ events[i].score > events[j].score
          /\ events[i].external_id \in C7_Fetched
          /\ events[j].external_id \notin C7_Fetched

\* C8: an X run performs no conversation fetch for a tweet whose thread an
\* earlier run of the chain fetched successfully.
C8_NoRefetchX ==
    connector = "x" => \A i \in 1..Len(calls) : calls[i].id \notin enrichedBefore

\* a tweet processed by an earlier run is collected again, qualifies, is chosen
\* for thread collection, and the loop has passed it
C8_Witness ==
    /\ connector = "x" /\ pc = "returned"
    /\ \E i \in 1..Len(loc.tweetsForThreads) :
          loc.tweetsForThreads[i].external_id \in enrichedBefore

\* C9: a Hacker News run performs no external-page fetch for a story whose
\* page an earlier run of the chain fetched.
C9_NoRefetchHN ==
    connector = "hn" => \A i \in 1..Len(calls) : calls[i].id \notin enrichedBefore

\* the candidates of the current run's enrichment pass
C10_Candidates ==
    IF connector = "x"
    THEN {loc.tweetsForThreads[i].external_id : i \in 1..Len(loc.tweetsForThreads)}
            \ XProcessed(checkpoint)
    ELSE {events[i].external_id :
            i \in {j \in 1..Len(events) :
                     events[j].external_url # "none"
                     /\ events[j].score >= ENGAGEMENT_THRESHOLD}}

\* C10: a failed conversation fetch (X) or external-page fetch (Hacker News)
\* never makes the run fail, and a run that returns has attempted every
\* candidate of its enrichment pass.
C10_FailureIsolated ==
    connector \in {"x", "hn"} =>
      /\ (\E i \in 1..Len(calls) : ~calls[i].ok) => pc # "failed"
      /\ (pc = "returned" /\ (connector = "hn" => config.content_type # "comment"))
            => C10_Candidates \subseteq C7_Fetched

\* a candidate was attempted after an earlier candidate's fetch had failed
C10_Witness ==
    /\ connector = "x" /\ pc = "returned"
    /\ \E i, j \in 1..Len(calls) : i < j /\ ~calls[i].ok /\ calls[j].ok

(***************************************************************************)
(* Claims C11, C12, C17: the browser connectors.                           *)
(***************************************************************************)

\* C11: in the Glassdoor and Capterra sync, once launchBrowser has returned,
\* browser.close() has been called by the time sync returns or throws.
C11_BrowserReleased ==
    /\ connector \in {"glassdoor", "capterra"}
    /\ pc \in {"returned", "failed"}
    /\ loc.browser # "none"
    => loc.closeCalls > 0

\* C12: in the G2 sync, once launchBrowser has returned, browser.close() has been
\* called by the time sync returns or throws.
C12_G2BrowserReleased ==
    connector = "g2" /\ pc \in {"returned", "failed"} /\ loc.browser # "none"
      => loc.closeCalls > 0

\* an exception on a later page, after events were collected
C12_Witness ==
    /\ connector = "g2" /\ pc = "failed"
    /\ loc.thrown /\ loc.pageNum > 1 /\ loc.browser = "closed"

\* the configuration of the run is invalid
C17_InvalidConfig ==
    \/ connector = "g2" /\ ~G2UrlMatches(config)
    \/ connector = "glassdoor" /\ ~config.company_name

\* C17: a G2 sync whose product_url does not match the review URL pattern, and a
\* Glassdoor sync without company_name, never return a result.
C17_InvalidConfigRaises == C17_InvalidConfig => pc # "returned"

(***************************************************************************)
(* Claims C13, C16: runs on a shared crawler instance.                     *)
(***************************************************************************)

\* the request URLs of run r are those its own options (and environment) give
C13_UrlsOwn(r) ==
    \A i \in 1..Len(loc.run[r].urls) :
        loc.run[r].urls[i] =
            IF connector = "githubCrawler"
            THEN GitHubBuildPageUrl(i - 1, loc.run[r].options)
            ELSE RedditBuildPageUrl(RedditBaseUrl(loc.run[r].env), i - 1,
                                    loc.run[r].options)

\* the parent map of run r is the one its own options give for its items
C13_ParentMapOwn(r) ==
    loc.run[r].parentMap = ParentMap(connector, loc.run[r].options, loc.run[r].items)

\* C13: two runs of pull interleaved on the same GitHubCrawler or RedditCrawler
\* instance do not affect each other: the parent map and the request URLs of
\* each run derive from that run's own options only.
C13_RunsIsolated ==
    connector \in {"githubCrawler", "redditCrawler"} =>
        \A r \in Runs : C13_UrlsOwn(r) /\ C13_ParentMapOwn(r)

\* C16: every run of pull that completes without raising returns a new non-null
\* checkpoint, whether or not updateCheckpointFn was supplied.
C16_ReturnsCheckpoint ==
    connector \in {"githubCrawler", "redditCrawler"} =>
        \A r \in Runs : loc.run[r].pc = "returned" => loc.run[r].checkpoint # Null

(***************************************************************************)
(* Claim C14: failed page fetches.                                         *)
(***************************************************************************)

\* C14: a page fetch that fails makes the run fail: no iOS run returns a normal
\* result and a checkpoint after one of its page requests was not answered
\* (a response that is not OK, or a body that is not JSON).
C14_FailedFetchFailsRun ==
    (connector = "ios" /\ pc = "returned") => ~loc.fetchFailed

\* the same for the crawlers: no run of pull returns after a page fetch of its
\* own failed (GitHub discussions included)
C14_FailedFetchFailsPull ==
    connector \in {"githubCrawler", "redditCrawler"} =>
        \A r \in Runs : loc.run[r].pc = "returned" => ~loc.run[r].fetchFailed

(***************************************************************************)
(* Claim C15: raw items whose date cannot be parsed.                       *)
(***************************************************************************)

\* the raw items of the run whose date can be parsed
C15_Parseable == {i \in 1..Len(source.items) : source.items[i] # InvalidDate}

\* C15: a raw item whose timestamp cannot be parsed never aborts the run: in the
\* iOS, Google Play and GitHub connectors' sync the item is skipped, and the run
\* returns the other items and a checkpoint.
C15_UnparseableSkipped ==
    /\ pc # "failed"
    /\ pc = "returned" => Ids(events) = C15_Parseable /\ result # Null

(***************************************************************************)
(* Claim C18: the order of the returned items.                             *)
(***************************************************************************)

\* C18: the events an X run returns are in non-increasing published_at order,
\* the reply events of the thread collection included.
C18_SortedByDate ==
    (connector = "x" /\ pc = "returned") =>
        \A i, j \in 1..Len(events) :
            i < j => events[i].published_at >= events[j].published_at

\* a returned X run whose newest event is a reply, collected after the tweets
C18_Witness ==
    /\ connector = "x" /\ pc = "returned"
    /\ Len(events) >= 2
    /\ events[1].kind = "reply"
    /\ \E j \in 2..Len(events) : events[j].kind = "tweet"

(***************************************************************************)
(* Claim C19: parent links.                                                *)
(***************************************************************************)

\* the comment names a parent: a Reddit parent_id, an HN parent_id or story_id
C19_NamesParent(c) ==
    IF connector = "reddit" THEN c.prefix # "" ELSE c.parent_id # 0 \/ c.story_id # 0

\* the comment names a parent the code can place: a Reddit comment or post,
\* the story of an HN comment
C19_NamesPlacedParent(c) ==
    IF connector = "reddit" THEN c.prefix \in {"t1_", "t3_"} ELSE c.story_id # 0

\* C19, as stated: every collected Reddit or HN comment that names a parent
\* (parent_id / story_id) gets a non-null parent id.
C19_NamedParentLinked ==
    connector \in {"reddit", "hn"} =>
        \A i \in 1..Len(events) :
            C19_NamesParent(source.comments[i]) => events[i].parent_external_id # Null

\* C19, amended: every collected Reddit comment whose parent_id is the fullname
\* of a comment (t1_) or of a post (t3_), and every collected HN comment that
\* carries a story_id, gets a non-null parent id, whether or not the parent is
\* among the collected items.
C19_PlacedParentLinked ==
    connector \in {"reddit", "hn"} =>
        \A i \in 1..Len(events) :
            C19_NamesPlacedParent(source.comments[i])
               => events[i].parent_external_id # Null

\* a finished run with a linked comment whose parent is not among its items
C19_Witness ==
    /\ connector \in {"reddit", "hn"} /\ pc = "returned"
    /\ \E i \in 1..Len(events) :
          /\ C19_NamesPlacedParent(source.comments[i])
          /\ events[i].parent_external_id # Null
          /\ events[i].parent_external_id \notin Ids(events)

(***************************************************************************)
(* Claim C20: credentials and the log.                                     *)
(***************************************************************************)

\* C20: XCrawler.pull never writes credential material to the log: two runs
\* that differ only in their secret values (X_COOKIES, X_PASSWORD,
\* X_2FA_SECRET, session cookies) have logged the same.
C20_LogIndependentOfSecrets ==
    connector = "xCrawler" => loc.log[1] = loc.log[2]

(***************************************************************************)
(* Claims C21 to C24: thread budget, mid-run flush, checkpoint, accounting.*)
(***************************************************************************)

\* the qualifying tweets of the run whose thread no earlier run has processed
C21_Unprocessed ==
    {i \in C7_Qualifying : events[i].external_id \notin XProcessed(checkpoint)}

\* C21: an X run takes its thread candidates among the qualifying tweets that
\* are not in processed_thread_ids, and only then the top max_threads_to_fetch:
\* it attempts min(budget, number of qualifying unprocessed tweets) threads.
C21_BudgetOverUnprocessed ==
    (connector = "x" /\ pc = "returned") =>
        Len(calls) = IF Cardinality(C21_Unprocessed) < config.max_threads_to_fetch
                     THEN Cardinality(C21_Unprocessed)
                     ELSE config.max_threads_to_fetch

\* the thread ids the first n conversation searches of the run fetched
C22_FetchedBy(n) == {calls[i].id : i \in {j \in 1..n : calls[j].ok}}

\* C22: with an updateCheckpointFn, XCrawler.pull flushes exactly after the
\* 20th, 40th, ... successful thread fetch of the run and never after a failed
\* one, and the processed_thread_ids of each flushed checkpoint contain every
\* id of the input checkpoint and every thread id fetched so far in the run.
C22_FlushCadence ==
    (connector = "xCrawler" /\ pc \in {"threads", "returned"}) =>
        /\ Len(loc.flushes) = IF config.updateCheckpointFn
                              THEN Cardinality(C22_FetchedBy(Len(calls))) \div XFlushEvery
                              ELSE 0
        /\ \A k \in 1..Len(loc.flushes) :
              LET f == loc.flushes[k] IN
                /\ calls[f.calls].ok
                /\ Cardinality(C22_FetchedBy(f.calls)) = k * XFlushEvery
                /\ XProcessed(checkpoint) \cup C22_FetchedBy(f.calls)
                      \subseteq f.processed_thread_ids

\* a run that flushed twice, with a failed fetch and a thread processed before
C22_Witness ==
    /\ connector = "xCrawler" /\ pc = "returned"
    /\ Len(loc.flushes) = 2
    /\ \E i \in 1..Len(calls) : ~calls[i].ok
    /\ XProcessed(checkpoint) # {}

\* C24: in the result of XCrawler.pull, metadata.items_skipped is never negative
\* and items_found minus items_skipped is the number of items returned, also
\* when the thread collection appended replies.
C24_SkipAccounting ==
    (connector = "xCrawler" /\ pc = "returned") =>
        /\ result.items_skipped >= 0
        /\ result.items_found - result.items_skipped = result.contents

\* C23: the last_timestamp of the checkpoint an X run returns is the
\* published_at of the newest event when the run collected one; else it is the
\* input checkpoint's last_timestamp, absent (0) when there was none.
C23_LastTimestampRule ==
    (connector = "x" /\ pc = "returned") =>
        result.last_timestamp =
            IF Len(events) > 0
            THEN CHOOSE t \in {events[i].published_at : i \in 1..Len(events)} :
                    \A i \in 1..Len(events) : events[i].published_at <= t
            ELSE LastTimestamp(checkpoint)

(***************************************************************************)
(* Claims C25 to C27: the Reddit connector's loop.                         *)
(***************************************************************************)

\* a Reddit run in search mode has returned, over a source of at most MAX_PAGES
\* pages, each but the last with a next cursor and at least one item
C25_SearchRunOver ==
    /\ connector = "reddit" /\ pc = "returned"
    /\ RedditSortOf(config) = "relevance"
    /\ Len(source) <= RedditMAX_PAGES
    /\ source[Len(source)].after = 0
    /\ \A i \in 1..(Len(source) - 1) : Len(source[i].children) > 0

\* C25: in search mode, where the results come by relevance, an item older than
\* the cutoff does not end the collection: every item of every page that is
\* neither old nor filtered is emitted.
C25_OldItemDoesNotEnd ==
    C25_SearchRunOver =>
        \A i \in 1..Len(source) : \A j \in 1..Len(source[i].children) :
            source[i].children[j] = "ok" =>
                RedditTransform(IF i = 1 THEN 0 ELSE i, j).external_id \in Ids(events)

\* a page fetch of a Reddit, Hacker News or iOS run
C26_Fetch ==
    /\ connector \in {"reddit", "hn", "ios"}
    /\ pc = "loop"
    /\ fetches' = fetches + 1

\* C26: in the Reddit, Hacker News and iOS sync, every page fetch after the
\* first starts only when the delay that follows the previous fetch has
\* completed, and no delay precedes the first fetch: the k-th fetch of a run
\* starts with k - 1 delays completed.
C26_DelayBetweenFetches == [][C26_Fetch => loc.delays = fetches]_vars

\* a run that fetched two pages or more has returned
C26_Witness ==
    /\ connector \in {"reddit", "hn", "ios"} /\ pc = "returned"
    /\ fetches >= 2 /\ loc.delays >= 1

\* the last response of a Reddit run was not OK
C27_NotOk == connector = "reddit" /\ loc.status \in RedditNotOk

\* C27: the Reddit sync does not retry within a run: the first response that
\* is not OK (429, 404, 403 or any other status) fails the run, which returns
\* neither events nor a checkpoint, and no step of the run, a fetch included,
\* follows it.
C27_NoRetry ==
    [][/\ C27_NotOk' => (pc' = "failed" /\ result' = Null)
       /\ ~C27_NotOk]_vars

\* a rate-limited response after a page that yielded events
C27_Witness ==
    /\ connector = "reddit" /\ pc = "failed" /\ loc.status = 429
    /\ fetches >= 2 /\ Len(events) > 0 /\ result = Null

(***************************************************************************)
(* Claim C28: the retry-after of a GitHub rate-limit error.                *)
(***************************************************************************)

\* handleHttpError has thrown for a 403 with x-ratelimit-remaining '0'
C28_RateLimited ==
    /\ connector = "githubHttp" /\ pc = "thrown"
    /\ source.status = 403
    /\ source.remaining.present /\ source.remaining.text = "0"

\* C28: on a 403 with x-ratelimit-remaining '0' the handler raises a
\* RateLimitError; its retry-after is x-ratelimit-reset * 1000 - now when that
\* is strictly positive, it has none when the reset header is missing or the
\* reset time is not in the future, and a retry-after is never zero or
\* negative.
C28_RetryAfter ==
    C28_RateLimited =>
        /\ result.kind = "RateLimitError"
        /\ IF source.reset.kind = "num" /\ source.reset.n * 1000 - source.now > 0
           THEN result.retryAfterMs = JsNum(source.reset.n * 1000 - source.now)
           ELSE result.retryAfterMs = JsUndefined
        /\ result.retryAfterMs.t = "num" => result.retryAfterMs.v > 0

\* a reset time that is exactly now: the error carries no retry-after
C28_Witness ==
    /\ C28_RateLimited
    /\ source.reset.kind = "num" /\ source.reset.n * 1000 = source.now
    /\ source.now > 0
    /\ result.retryAfterMs = JsUndefined

(***************************************************************************)
(* Claim C29: new Google Play reviews across runs.                         *)
(***************************************************************************)

\* a run has returned, and the feed holds a review published after the
\* last_timestamp of its checkpoint
C29_Published ==
    /\ connector = "gplay" /\ pc = "returned"
    /\ ~source.deep
    /\ Len(source.feed) > 0 /\ source.feed[1] = FreshTs
    /\ LastTimestamp(result) < FreshTs

\* a run returns the new review
C29_Emitted ==
    /\ pc = "returned"
    /\ \E i \in 1..Len(events) : events[i].published_at = FreshTs

\* C29: Google Play sync never starves new reviews: in a chain of runs, each
\* with the checkpoint of the one before (a checkpoint with a pagination
\* token included), a review published after the checkpoint's last_timestamp
\* is emitted by some later run.
C29_NeverStarved == C29_Published ~> C29_Emitted

(***************************************************************************)
(* Claim C30: updates of GitHub issues across runs.                        *)
(***************************************************************************)

\* every issue has been emitted as it stands now
C30_AllEmitted ==
    connector = "github" /\
        \A i \in Issues :
            [external_id |-> i, updated_at |-> source.updated[i]]
                \in emittedBefore \cup events

\* C30: the GitHub connector loses no update across runs: in a chain of
\* syncs, each with the checkpoint of the one before, every issue updated
\* after the first run's since-time is emitted by some run, as it stands
\* after its last update, the updates made between a run's request and its
\* last_sync_at and those beyond the first 100 of a response included.
C30_NoUpdateLost == <>[]C30_AllEmitted

(***************************************************************************)
(* Claims C31 to C33: the checkpoints of X, iOS and Google Maps.           *)
(***************************************************************************)

\* the tweets the primary search of the run kept
C31_SearchTweets ==
    Range(XScanSearch(source.search, 1, XLastTweetId(checkpoint), <<>>, {}).tweets)

\* C31: the last_tweet_id of the checkpoint of an X run that collected items
\* is the id of a tweet the primary search returned, never the id of a reply
\* that the thread collection added.
C31_LastTweetFromSearch ==
    (connector = "x" /\ pc = "returned" /\ Len(events) > 0) =>
        result.last_tweet_id \in C31_SearchTweets

\* processed_thread_ids of the input checkpoint
C32_Input == IF checkpoint = Null THEN {} ELSE checkpoint.processed_thread_ids

\* the roots whose conversation fetch completed in this run
C32_FetchedOk == {calls[j].id : j \in {k \in 1..Len(calls) : calls[k].ok}}

\* C32: processed_thread_ids of the checkpoint an X run returns holds every
\* id of the input checkpoint, and beyond these only the roots whose
\* conversation fetch completed in this run: a thread whose fetch failed is
\* not marked.
C32_ProcessedThreadIds ==
    (connector = "x" /\ pc = "returned") =>
        /\ C32_Input \subseteq result.processed_thread_ids
        /\ result.processed_thread_ids \subseteq C32_Input \cup C32_FetchedOk

\* a later run of a chain returns after one fetch that failed and one that
\* completed
C32_Witness ==
    /\ connector = "x" /\ pc = "returned"
    /\ C32_Input # {}
    /\ \E j \in 1..Len(calls) :
          ~calls[j].ok /\ calls[j].id \notin result.processed_thread_ids
    /\ result.processed_thread_ids # C32_Input

\* C33: along a chain of runs, each with the checkpoint of the one before,
\* last_timestamp of the checkpoint never decreases: the checkpoint an X run
\* returns is not older than the one it was given.
C33_LastTimestampMonotone ==
    (connector = "x" /\ pc = "returned" /\ checkpoint # Null) =>
        result.last_timestamp >= checkpoint.last_timestamp

(***************************************************************************)
(* Claim C34: concurrent calls of RedditCrawler.getAccessToken.            *)
(***************************************************************************)

C35_StoryIdsOnce ==
    (connector = "hnStories" /\ pc = "returned") =>
        Cardinality(Range(result.processed_story_ids))
            = Len(result.processed_story_ids)

(***************************************************************************)
(* Claim C36: authentication before the X search.                          *)
(***************************************************************************)

\* C36: X sync issues no tweet search unless authentication succeeded first
\* (cookies set and isLoggedIn true, or a login call that returned); with
\* neither cookies nor the full triple of username, password and email the
\* run fails before any authentication call and any search.
C36_AuthBeforeSearch ==
    connector = "xAuth" =>
        /\ (pc = "search" \/ fetches > 0) =>
              /\ loc.authenticated
              /\ loc.cookie = "logged in" \/ loc.login = "returned"
        /\ ~XCredentialsConfigured(config) =>
              /\ pc \in {"start", "failed"}
              /\ fetches = 0 /\ loc.cookie = "none" /\ loc.login = "none"

\* the search is issued after the cookies were refused and the login returned
C36_Witness ==
    /\ connector = "xAuth" /\ pc = "searched"
    /\ loc.cookie = "not logged in" /\ loc.login = "returned"

(***************************************************************************)
(* Claim C37: GitHubConnector.execute.                                     *)
(***************************************************************************)

\* the call cannot succeed: something it needs is missing
C37_MustFail ==
    \/ ~GitHubRepoResolved(source, config)
    \/ ~GitHubTokenResolved(source, config)
    \/ ~source.required
    \/ source.actionKey \notin GitHubActionKeys

\* C37: execute never raises: whatever the action key, the config and the
\* input (repository or token missing, unknown action, required input
\* missing, API request failed), it returns an ActionResult, with success
\* false and an error message when it failed.
C37_NeverRaises ==
    (connector = "githubExecute" /\ pc = "returned") =>
        /\ ~result.raised
        /\ (C37_MustFail \/ ~result.success) =>
              (~result.success /\ result.error # "")

\* the API request of an action failed and execute returned the failure
C37_Witness ==
    /\ connector = "githubExecute" /\ pc = "returned"
    /\ fetches = 1
    /\ ~result.success /\ result.error = "GitHub API failed"

====
